---- MODULE Spec2Model ----
(***************************************************************************)
(* A model of the faceting engine of miratope-core                         *)
(* (src/miratope-core/src/conc/faceting.rs).                                *)
(*                                                                         *)
(* Vertices, hyperplane orbits, facets and ridge orbits keep the 0-based    *)
(* indices of the source; a Vec is a TLA+ sequence, so the source's v[i]    *)
(* is At(v, i).  A row of a vertex map is the tuple of its images.          *)
(***************************************************************************)
EXTENDS Integers, Sequences, FiniteSets, TLC

(***************************************************************************)
(* Bounds of the model.                                                    *)
(***************************************************************************)
\* largest number of points of a planar configuration given to faceting_subdim
MaxPoints == 4
\* largest number of generators a symmetry table is generated from
MaxGens == 1
\* largest value of the max_per_hyperplane cap
MaxCap == 1
\* largest number of points of a configuration in 3-space given to
\* Concrete::faceting with each of its tables (the hexagonal pyramid is given
\* with its whole group only)
MaxSolidPoints == 5
\* largest value of the argument noble
MaxNoble == 2
\* number of distinct (h, f) pairs in the lists given to label_mixed_compounds
MaxLabelFacets == 4
\* largest number of lists given to label_mixed_compounds
MaxLists == 4

(***************************************************************************)
(* Vec helpers.                                                            *)
(***************************************************************************)
At(s, i) == s[i + 1]

Range0(n) == 0 .. (n - 1)

SeqToSet(s) == {s[i] : i \in 1 .. Len(s)}

Contains(s, x) == \E i \in 1 .. Len(s) : s[i] = x

Last(s) == s[Len(s)]

\* Ord of Vec<usize> and of (usize, usize): lexicographic.
RECURSIVE LexLt(_, _)
LexLt(a, b) ==
    IF b = <<>> THEN FALSE
    ELSE IF a = <<>> THEN TRUE
    ELSE IF a[1] < b[1] THEN TRUE
    ELSE IF a[1] > b[1] THEN FALSE
    ELSE LexLt(Tail(a), Tail(b))

\* Ord of Vec<(usize, usize)> and of Vec<Vec<usize>>: lexicographic over LexLt.
RECURSIVE ListLt(_, _)
ListLt(a, b) ==
    IF b = <<>> THEN FALSE
    ELSE IF a = <<>> THEN TRUE
    ELSE IF LexLt(a[1], b[1]) THEN TRUE
    ELSE IF LexLt(b[1], a[1]) THEN FALSE
    ELSE ListLt(Tail(a), Tail(b))

RECURSIVE InsertNat(_, _)
InsertNat(s, x) ==
    IF s = <<>> THEN <<x>>
    ELSE IF x < s[1] THEN <<x>> \o s
    ELSE <<s[1]>> \o InsertNat(Tail(s), x)

\* sort_unstable on a Vec<usize>
RECURSIVE SortNat(_)
SortNat(s) == IF s = <<>> THEN <<>> ELSE InsertNat(SortNat(Tail(s)), s[1])

RECURSIVE InsertLex(_, _)
InsertLex(s, x) ==
    IF s = <<>> THEN <<x>>
    ELSE IF LexLt(x, s[1]) THEN <<x>> \o s
    ELSE <<s[1]>> \o InsertLex(Tail(s), x)

\* sort_unstable on a Vec<(usize, usize)> or a Vec<Vec<usize>>
RECURSIVE SortLex(_)
SortLex(s) == IF s = <<>> THEN <<>> ELSE InsertLex(SortLex(Tail(s)), s[1])

RECURSIVE InsertList(_, _)
InsertList(s, x) ==
    IF s = <<>> THEN <<x>>
    ELSE IF ListLt(x, s[1]) THEN <<x>> \o s
    ELSE <<s[1]>> \o InsertList(Tail(s), x)

\* sort_unstable on a Vec<Vec<(usize, usize)>>
RECURSIVE SortLists(_)
SortLists(s) == IF s = <<>> THEN <<>> ELSE InsertList(SortLists(Tail(s)), s[1])

\* row applied to every entry of a vertex list
MapRow(row, vs) == [i \in 1 .. Len(vs) |-> At(row, vs[i])]

(***************************************************************************)
(* Ranks: a sequence of ranks (index 0 the nullitope's rank, 1 the          *)
(* vertices, 2 the edges, ...), each a sequence of elements, an element     *)
(* being its list of subelement indices.                                    *)
(***************************************************************************)
\* Abstract::dyad().ranks(): nullitope, two vertices, the edge
DyadRanks == << << <<>> >>, << <<0>>, <<0>> >>, << <<0, 1>> >> >>

\* the ridge a dyad's endpoint v contributes, as written at rank 2
PointRidge(v) == << <<>>, << <<0>> >>, << <<v>> >> >>

NoMap == [x \in {} |-> <<0, 0>>]

EmptyResult ==
    [facetings |-> <<>>, counts |-> <<>>, ridges |-> <<>>,
     compounds |-> NoMap, fissary |-> {}]

\* the loop reading row[1] in place of row[0]
SnubSecond(vertex_map) == ~ \E i \in 1 .. Len(vertex_map) : At(vertex_map[i], 1) = 1

\* the loop with the two classifications exchanged
SnubInverted(vertex_map) == \E i \in 1 .. Len(vertex_map) : At(vertex_map[i], 0) = 1

\* the loop that looks for a row mapping local vertex 0 to local vertex 1
Snub(vertex_map) == ~ \E i \in 1 .. Len(vertex_map) : At(vertex_map[i], 0) = 1

\* faceting_subdim, the branch rank == 2
\* the test with the bound one too high
TetradsToo(total_vert_count) == total_vert_count > 3

\* "let's not bother with tetrads": more than 2 points at rank 2
Tetrads(total_vert_count) == total_vert_count > 2

FacetingSubdimDyad(total_vert_count, vertex_map) ==
    IF Tetrads(total_vert_count) THEN EmptyResult
    ELSE IF Snub(vertex_map)
    THEN [facetings |-> << [ranks |-> DyadRanks, facets |-> << <<0, 0>>, <<1, 0>> >>] >>,
          counts |-> <<1, 1>>,
          ridges |-> << <<PointRidge(0)>>, <<PointRidge(1)>> >>,
          compounds |-> NoMap, fissary |-> {}]
    ELSE [facetings |-> << [ranks |-> DyadRanks, facets |-> << <<0, 0>> >>] >>,
          counts |-> <<2>>,
          ridges |-> << <<PointRidge(0)>> >>,
          compounds |-> NoMap, fissary |-> {}]

(***************************************************************************)
(* Ranks::element_sort_strong                                              *)
(***************************************************************************)
\* where index k goes when the subelement lists are sorted (equal lists keep
\* their order)
RECURSIVE InsertIdx(_, _, _)
InsertIdx(list, s, k) ==
    IF s = <<>> THEN <<k>>
    ELSE IF LexLt(At(list, s[1]), At(list, k)) THEN <<s[1]>> \o InsertIdx(list, Tail(s), k)
    ELSE <<k>> \o s

RECURSIVE SortIdxFrom(_, _)
SortIdxFrom(list, k) ==
    IF k >= Len(list) THEN <<>> ELSE InsertIdx(list, SortIdxFrom(list, k + 1), k)

\* one pass of the loop over rank: sorts self[rank] and renumbers self[rank+1]
StrongStep(R, rank) ==
    LET cur == At(R, rank)
        sorted == SortIdxFrom(cur, 0)
        perm == [j \in Range0(Len(cur)) |->
                    CHOOSE i \in Range0(Len(cur)) : At(sorted, i) = j]
        newcur == [i \in 1 .. Len(cur) |-> SortNat(At(cur, sorted[i]))]
        nxt == At(R, rank + 1)
        newnxt == [i \in 1 .. Len(nxt) |->
                    SortNat([k \in 1 .. Len(nxt[i]) |-> perm[nxt[i][k]]])]
    IN [R EXCEPT ![rank + 1] = newcur, ![rank + 2] = newnxt]

RECURSIVE StrongFrom(_, _)
StrongFrom(R, rank) ==
    IF rank > Len(R) - 2 THEN R ELSE StrongFrom(StrongStep(R, rank), rank + 1)

\* only the subelement lists of self[2] are sorted
SortEdgesOnly(R) == [R EXCEPT ![3] = [e \in 1 .. Len(R[3]) |-> SortNat(R[3][e])]]

element_sort_strong(R) ==
    StrongFrom([R EXCEPT ![3] = [e \in 1 .. Len(R[3]) |-> SortNat(R[3][e])]], 2)

\* ranks with the vertex indices of its edges sent through the list hp_v
Globalize(R, hp_v) ==
    [R EXCEPT ![3] = [e \in 1 .. Len(R[3]) |->
                        [k \in 1 .. Len(R[3][e]) |-> At(hp_v, R[3][e][k])]]]

\* ranks with the vertex indices of its edges sent through a row, then sorted
ImageRanks(R, row) == element_sort_strong(Globalize(R, row))

(***************************************************************************)
(* Orbits of vertices and of pairs                                         *)
(***************************************************************************)
RECURSIVE VertexOrbitRows(_, _, _, _)
VertexOrbitRows(vertex_map, i, v, st) ==
    IF i > Len(vertex_map) THEN st
    ELSE LET c == At(vertex_map[i], v)
         IN IF c \in st.checked_vertices
            THEN VertexOrbitRows(vertex_map, i + 1, v, st)
            ELSE VertexOrbitRows(vertex_map, i + 1, v,
                    [st EXCEPT !.new_orbit = Append(@, c),
                               !.checked_vertices = @ \cup {c},
                               !.orbit_of_vertex[c] = st.orbit_idx])

RECURSIVE VertexOrbitsFrom(_, _, _, _)
VertexOrbitsFrom(n, vertex_map, v, st) ==
    IF v >= n THEN st
    ELSE IF v \in st.checked_vertices THEN VertexOrbitsFrom(n, vertex_map, v + 1, st)
    ELSE LET r == VertexOrbitRows(vertex_map, 1, v, [st EXCEPT !.new_orbit = <<>>])
         IN VertexOrbitsFrom(n, vertex_map, v + 1,
                [r EXCEPT !.vertex_orbits = Append(@, r.new_orbit),
                          !.orbit_idx = @ + 1])

\* the orbits with the loop over the rows stopped after the first row
VertexOrbitsFirstRow(n, vertex_map) ==
    VertexOrbitsFrom(n, SubSeq(vertex_map, 1, 1), 0,
        [vertex_orbits |-> <<>>, orbit_of_vertex |-> [v \in Range0(n) |-> 0],
         checked_vertices |-> {}, orbit_idx |-> 0, new_orbit |-> <<>>])

\* vertex_orbits and orbit_of_vertex of n vertices under a vertex map
VertexOrbits(n, vertex_map) ==
    VertexOrbitsFrom(n, vertex_map, 0,
        [vertex_orbits |-> <<>>, orbit_of_vertex |-> [v \in Range0(n) |-> 0],
         checked_vertices |-> {}, orbit_idx |-> 0, new_orbit |-> <<>>])

Min2(a, b) == IF a < b THEN a ELSE b
Max2(a, b) == IF a < b THEN b ELSE a

RECURSIVE PairOrbitRows(_, _, _, _, _)
PairOrbitRows(vertex_map, i, rep, vertex, st) ==
    IF i > Len(vertex_map) THEN st
    ELSE LET a1 == At(vertex_map[i], rep)
             a2 == At(vertex_map[i], vertex)
             c == <<Min2(a1, a2), Max2(a1, a2)>>
         IN IF c \in st.checked
            THEN PairOrbitRows(vertex_map, i + 1, rep, vertex, st)
            ELSE PairOrbitRows(vertex_map, i + 1, rep, vertex,
                    [st EXCEPT !.new_orbit = Append(@, c), !.checked = @ \cup {c}])

RECURSIVE PairOrbitVertices(_, _, _, _, _)
PairOrbitVertices(n, vertex_map, rep, vertex, st) ==
    IF vertex >= n THEN st
    ELSE IF <<rep, vertex>> \in st.checked
    THEN PairOrbitVertices(n, vertex_map, rep, vertex + 1, st)
    ELSE LET r == PairOrbitRows(vertex_map, 1, rep, vertex, [st EXCEPT !.new_orbit = <<>>])
         IN PairOrbitVertices(n, vertex_map, rep, vertex + 1,
                [r EXCEPT !.pair_orbits = Append(@, r.new_orbit)])

RECURSIVE PairOrbitsFrom(_, _, _, _, _)
PairOrbitsFrom(n, vertex_map, vertex_orbits, k, st) ==
    IF k > Len(vertex_orbits) THEN st
    ELSE IF vertex_orbits[k] = <<>> THEN [st EXCEPT !.panic = TRUE]
    ELSE LET rep == vertex_orbits[k][1]
         IN PairOrbitsFrom(n, vertex_map, vertex_orbits, k + 1,
                PairOrbitVertices(n, vertex_map, rep, rep + 1, st))

\* pair_orbits, with no edge length filter (min_edge_length = max_edge_length
\* = None); panic when orbit[0] is read of an empty orbit
PairOrbits(n, vertex_map, vertex_orbits) ==
    PairOrbitsFrom(n, vertex_map, vertex_orbits, 1,
        [pair_orbits |-> <<>>, checked |-> {}, new_orbit |-> <<>>, panic |-> FALSE])

(***************************************************************************)
(* Hyperplanes of a planar configuration (rank 3: the lines through two    *)
(* points).  A configuration is its number of points and its lines, each   *)
(* line the set of the points on it.                                       *)
(***************************************************************************)
SetToSortedSeq(S) == SortNat(CHOOSE s \in [1 .. Cardinality(S) -> S] : SeqToSet(s) = S)

\* the indices idx, ascending, of the points with hyperplane.distance < EPS
HyperplaneVertices(config, rep) ==
    SetToSortedSeq(CHOOSE l \in config.lines : rep[1] \in l /\ rep[2] \in l)

\* only the image under the first row is taken into the orbit
HyperplaneRowsFirst(vertex_map, i, hyperplane_vertices, st) ==
    [st EXCEPT !.new_orbit_vertices = <<MapRow(vertex_map[1], hyperplane_vertices)>>,
               !.checked = @ \cup {SortNat(MapRow(vertex_map[1], hyperplane_vertices))}]

RECURSIVE HyperplaneRows(_, _, _, _)
HyperplaneRows(vertex_map, i, hyperplane_vertices, st) ==
    IF i > Len(vertex_map) THEN st
    ELSE LET new_hp_v == MapRow(vertex_map[i], hyperplane_vertices)
             sorted == SortNat(new_hp_v)
         IN IF sorted \in st.checked
            THEN HyperplaneRows(vertex_map, i + 1, hyperplane_vertices, st)
            ELSE HyperplaneRows(vertex_map, i + 1, hyperplane_vertices,
                    [st EXCEPT !.new_orbit_vertices = Append(@, new_hp_v),
                               !.checked = @ \cup {sorted}])

RECURSIVE HyperplanesFrom(_, _, _, _, _)
HyperplanesFrom(config, vertex_map, pair_orbits, k, st) ==
    IF k > Len(pair_orbits) THEN st
    ELSE IF pair_orbits[k] = <<>> THEN [st EXCEPT !.panic = TRUE]
    ELSE LET rep == pair_orbits[k][1]
             hyperplane_vertices == HyperplaneVertices(config, rep)
         IN IF rep[2] + 3 - 2 > config.n \/ hyperplane_vertices \in st.checked
            THEN HyperplanesFrom(config, vertex_map, pair_orbits, k + 1, st)
            ELSE LET r == HyperplaneRows(vertex_map, 1, hyperplane_vertices,
                                [st EXCEPT !.new_orbit_vertices = <<>>])
                 IN HyperplanesFrom(config, vertex_map, pair_orbits, k + 1,
                        [r EXCEPT !.hyperplanes_vertices = Append(@, r.new_orbit_vertices)])

\* hyperplanes_vertices at rank 3, noble_package = None
Hyperplanes(config, vertex_map, pair_orbits) ==
    HyperplanesFrom(config, vertex_map, pair_orbits, 1,
        [hyperplanes_vertices |-> <<>>, checked |-> {}, new_orbit_vertices |-> <<>>,
         panic |-> FALSE])

(***************************************************************************)
(* The induced stabilizer of a hyperplane                                  *)
(***************************************************************************)
Stabilizer(vertex_map, hp_v) ==
    LET keep == SelectSeq(vertex_map, LAMBDA row : SortNat(MapRow(row, hp_v)) = hp_v)
    IN [a \in 1 .. Len(keep) |-> MapRow(keep[a], hp_v)]

\* map_back: the index stabilizer[0] holds a vertex at (the last one on a repeat)
\* no conversion: the global index is kept
MapBackGlobal(first, el) == el

MapBack(first, el) ==
    CHOOSE idx \in Range0(Len(first)) :
        /\ At(first, idx) = el
        /\ \A j \in Range0(Len(first)) : At(first, j) = el => j <= idx

NewStabilizer(stabilizer) ==
    [a \in 1 .. Len(stabilizer) |->
        [b \in 1 .. Len(stabilizer[a]) |-> MapBack(stabilizer[1], stabilizer[a][b])]]

(***************************************************************************)
(* Faceting the hyperplanes: the recursive call of faceting_subdim on each *)
(* hyperplane orbit's first hyperplane (rank - 1 = 2)                      *)
(***************************************************************************)
\* what the loop "for (i, orbit) in hyperplane_orbits" computes for orbit i,
\* hp_v the vertex list of its first hyperplane
FacetRows(hp_v, new_stabilizer, sub) ==
    [panic |-> FALSE,
     new_stabilizer |-> new_stabilizer,
     possible_facets_row |-> sub.facetings,
     possible_facets_global_row |->
        [f \in 1 .. Len(sub.facetings) |->
            [sub.facetings[f] EXCEPT !.ranks = Globalize(@, hp_v)]],
     compound_facets_row |-> sub.compounds,
     ridges_row |-> sub.ridges,
     ff_counts_row |-> sub.counts,
     fissary_facets |-> sub.fissary]

FacetStabilized(hp_v, new_stabilizer) ==
    FacetRows(hp_v, new_stabilizer, FacetingSubdimDyad(Len(hp_v), new_stabilizer))

\* stabilizer[0] is read: a panic when no row keeps the hyperplane
FacetHyperplaneOf(hp_v, stabilizer) ==
    IF stabilizer = <<>> THEN [panic |-> TRUE]
    ELSE FacetStabilized(hp_v, NewStabilizer(stabilizer))

FacetHyperplane(vertex_map, hp_v) ==
    FacetHyperplaneOf(hp_v, Stabilizer(vertex_map, hp_v))

(***************************************************************************)
(* The ridge orbits                                                        *)
(***************************************************************************)
\* ridge_orbits is kept as the list of its keys, the key inserted with value
\* idx at position idx; get returns the value last inserted for a key
HasKey(keys, k) == \E i \in 1 .. Len(keys) : keys[i] = k

GetKey(keys, k) ==
    (CHOOSE i \in 1 .. Len(keys) :
        keys[i] = k /\ \A j \in 1 .. Len(keys) : keys[j] = k => j <= i) - 1

RidgeVertices(ridge) ==
    SetToSortedSeq(UNION {SeqToSet(ridge[3][e]) : e \in 1 .. Len(ridge[3])})

RECURSIVE RidgeRows(_, _, _, _, _, _)
RidgeRows(vertex_map, i, ridge, ridge_vertices, st, acc) ==
    IF i > Len(vertex_map) THEN acc
    ELSE LET row == vertex_map[i]
             new_ridge_vertices == SortNat(MapRow(row, ridge_vertices))
             new_ridge == ImageRanks(ridge, row)
         IN IF new_ridge_vertices \in st.checked_vertices /\ HasKey(st.ridge_orbits, new_ridge)
            THEN [acc EXCEPT !.found = TRUE, !.idx = GetKey(st.ridge_orbits, new_ridge)]
            ELSE RidgeRows(vertex_map, i + 1, ridge, ridge_vertices, st,
                    [acc EXCEPT
                        !.same_vertices = IF ridge_vertices = new_ridge_vertices
                                          THEN @ \cup {new_ridge} ELSE @,
                        !.counting = @ \cup {new_ridge_vertices}])

\* the end of the loop with the count of a new orbit taken as
\* counting.len() + same_vertices.len()
RidgePushSum(st, ridge, ridge_vertices, acc) ==
    IF acc.found
    THEN [st EXCEPT !.r_i_o_row_row = Append(@, acc.idx)]
    ELSE [st EXCEPT !.ridge_orbits = Append(@, ridge),
                    !.checked_vertices = @ \cup {ridge_vertices},
                    !.r_i_o_row_row = Append(@, st.orbit_idx),
                    !.ridge_counts =
                         Append(@, Cardinality(acc.counting) + Cardinality(acc.same_vertices)),
                    !.orbit_idx = @ + 1]

\* the end of the loop over one ridge: an orbit met again pushes its index, a
\* new orbit is inserted with its count counting.len() * same_vertices.len()
RidgePush(st, ridge, ridge_vertices, acc) ==
    IF acc.found
    THEN [st EXCEPT !.r_i_o_row_row = Append(@, acc.idx)]
    ELSE [st EXCEPT !.ridge_orbits = Append(@, ridge),
                    !.checked_vertices = @ \cup {ridge_vertices},
                    !.r_i_o_row_row = Append(@, st.orbit_idx),
                    !.ridge_counts =
                         Append(@, Cardinality(acc.counting) * Cardinality(acc.same_vertices)),
                    !.orbit_idx = @ + 1]

RidgeScan(vertex_map, ridge, ridge_vertices, st) ==
    RidgePush(st, ridge, ridge_vertices,
        RidgeRows(vertex_map, 1, ridge, ridge_vertices, st,
            [found |-> FALSE, idx |-> 0, counting |-> {}, same_vertices |-> {}]))

RidgeGlobal(vertex_map, ridge, st) ==
    RidgeScan(vertex_map, ridge, RidgeVertices(ridge), st)

\* one ridge of the loop over ridges_row_row: its orbit index is pushed
RidgeOne(vertex_map, hp_v, local_ridge, st) ==
    RidgeGlobal(vertex_map, element_sort_strong(Globalize(local_ridge, hp_v)), st)

\* the loop over the ridges of one rank; the index ridge_i of enumerate() is
\* the length of the row r_i_o_row_row pushed so far
RECURSIVE RidgeLoop3(_, _, _, _, _, _)
RidgeLoop3(vertex_map, hp_v, possible_ridges, ridges_row_row, row_row_i, st) ==
    IF Len(st.r_i_o_row_row) >= Len(ridges_row_row) THEN st
    ELSE RidgeLoop3(vertex_map, hp_v, possible_ridges, ridges_row_row, row_row_i,
            IF <<row_row_i, Len(st.r_i_o_row_row)>> \notin possible_ridges
            THEN [st EXCEPT !.r_i_o_row_row = Append(@, 0)]
            ELSE RidgeOne(vertex_map, hp_v, At(ridges_row_row, Len(st.r_i_o_row_row)), st))

\* r_i_o_row.push(r_i_o_row_row)
PushRowRow(r) == [r EXCEPT !.r_i_o_row = Append(@, r.r_i_o_row_row)]

\* the loop over the ranks of the ridges of one hyperplane; row_row_i is the
\* length of r_i_o_row
RECURSIVE RidgeLoop2(_, _, _, _, _)
RidgeLoop2(vertex_map, hp_v, possible_ridges, ridges_row, st) ==
    IF Len(st.r_i_o_row) >= Len(ridges_row) THEN st
    ELSE RidgeLoop2(vertex_map, hp_v, possible_ridges, ridges_row,
            PushRowRow(RidgeLoop3(vertex_map, hp_v, possible_ridges,
                            At(ridges_row, Len(st.r_i_o_row)), Len(st.r_i_o_row),
                            [st EXCEPT !.r_i_o_row_row = <<>>])))

\* ridge_idx_orbits.push(r_i_o_row)
PushRow(r) == [r EXCEPT !.ridge_idx_orbits = Append(@, r.r_i_o_row)]

\* the (ridge rank, index) pairs some possible facet of the hyperplane uses
PossibleRidges(list) == UNION {SeqToSet(list[f].facets) : f \in 1 .. Len(list)}

\* the loop over the hyperplane orbits; hp_i is the length of ridge_idx_orbits
RECURSIVE RidgeLoop1(_, _, _, _, _)
RidgeLoop1(vertex_map, hp_vs, possible_facets, ridges, st) ==
    IF Len(st.ridge_idx_orbits) >= Len(ridges) THEN st
    ELSE RidgeLoop1(vertex_map, hp_vs, possible_facets, ridges,
            PushRow(RidgeLoop2(vertex_map, At(hp_vs, Len(st.ridge_idx_orbits)),
                        PossibleRidges(At(possible_facets, Len(st.ridge_idx_orbits))),
                        At(ridges, Len(st.ridge_idx_orbits)),
                        [st EXCEPT !.r_i_o_row = <<>>])))

\* ridge_idx_orbits and ridge_counts; hp_vs[i] is the vertex list of the first
\* hyperplane of orbit i, the list its ridges are globalized through
RidgeOrbits(vertex_map, hp_vs, possible_facets, ridges) ==
    RidgeLoop1(vertex_map, hp_vs, possible_facets, ridges,
        [ridge_idx_orbits |-> <<>>, ridge_orbits |-> <<>>, ridge_counts |-> <<>>,
         orbit_idx |-> 0, checked_vertices |-> {}, r_i_o_row |-> <<>>,
         r_i_o_row_row |-> <<>>])

(***************************************************************************)
(* The multiplicities ridge_muls and the index ones                        *)
(***************************************************************************)
\* f_count * ridge_count / total_ridge_count, the division of usize
Mul(f_count, ridge_count, total_ridge_count) ==
    (f_count * ridge_count) \div total_ridge_count

RECURSIVE MulsFacet(_, _, _, _, _, _)
MulsFacet(c, hp, f, ridge_idxs_local, k, st) ==
    IF k > Len(ridge_idxs_local) \/ st.panic THEN st
    ELSE LET ridge_idx == ridge_idxs_local[k]
             ridge_orbit == At(At(At(c.ridge_idx_orbits, hp), ridge_idx[1]), ridge_idx[2])
             ridge_count == At(At(c.ff_counts, hp), ridge_idx[1])
             total_ridge_count == At(c.ridge_counts, ridge_orbit)
         IN IF total_ridge_count = 0 THEN [st EXCEPT !.panic = TRUE]
            ELSE LET mul == Mul(At(c.f_counts, hp), ridge_count, total_ridge_count)
                 IN MulsFacet(c, hp, f, ridge_idxs_local, k + 1,
                        [st EXCEPT
                            !.ones[ridge_orbit + 1] =
                                IF mul = 1 THEN Append(@, <<hp, f>>) ELSE @,
                            !.ridge_muls_facet[ridge_orbit] = mul])

RECURSIVE MulsLoop(_, _, _, _)
MulsLoop(c, hp, f, st) ==
    IF hp >= Len(c.possible_facets) \/ st.panic THEN st
    ELSE IF f >= Len(At(c.possible_facets, hp))
    THEN MulsLoop(c, hp + 1, 0,
            [st EXCEPT !.ridge_muls = Append(@, st.ridge_muls_hp), !.ridge_muls_hp = <<>>])
    ELSE LET r == MulsFacet(c, hp, f, At(At(c.possible_facets, hp), f).facets, 1,
                    [st EXCEPT !.ridge_muls_facet =
                        [g \in Range0(Len(c.ridge_counts)) |-> 0]])
         IN MulsLoop(c, hp, f + 1,
                [r EXCEPT !.ridge_muls_hp = Append(@, r.ridge_muls_facet)])

\* ridge_muls[hp][f][g] and ones[g]; panic on a division by zero
RidgeMuls(c) ==
    MulsLoop(c, 0, 0,
        [ridge_muls |-> <<>>, ridge_muls_hp |-> <<>>,
         ridge_muls_facet |-> [g \in Range0(Len(c.ridge_counts)) |-> 0],
         ones |-> [g \in 1 .. Len(c.ridge_counts) |-> <<>>], panic |-> FALSE])

(***************************************************************************)
(* The catalogue faceting_subdim searches at rank 3: everything it         *)
(* computes before the stack search                                        *)
(***************************************************************************)
NoCatalogue == [panic |-> TRUE]

\* the catalogue once ridge_muls and ones are built
CatalogueMuls(c, rm) ==
    IF rm.panic THEN NoCatalogue
    ELSE [ridge_muls |-> rm.ridge_muls, ones |-> rm.ones] @@ c

CatalogueCounts(c) == CatalogueMuls(c, RidgeMuls(c))

\* the catalogue once the ridge orbits are built; hvs[i] is the vertex list of
\* the first hyperplane of orbit i
CatalogueRidges(config, vo, hvs, f_counts, fh, ro) ==
    CatalogueCounts(
        [panic |-> FALSE,
         total_vert_count |-> config.n,
         orbit_of_vertex |-> vo.orbit_of_vertex,
         hyperplane_reps |-> hvs,
         stabilizers |-> [i \in 1 .. Len(hvs) |-> fh[i].new_stabilizer],
         possible_facets |-> [i \in 1 .. Len(hvs) |-> fh[i].possible_facets_row],
         possible_facets_global |->
            [i \in 1 .. Len(hvs) |-> fh[i].possible_facets_global_row],
         compound_facets |-> [i \in 1 .. Len(hvs) |-> fh[i].compound_facets_row],
         ff_counts |-> [i \in 1 .. Len(hvs) |-> fh[i].ff_counts_row],
         all_fissary_facets |-> [i \in 1 .. Len(hvs) |-> fh[i].fissary_facets],
         ridge_idx_orbits |-> ro.ridge_idx_orbits,
         ridge_counts |-> ro.ridge_counts,
         f_counts |-> f_counts])

\* the catalogue once every hyperplane orbit is faceted
CatalogueFacets(config, vertex_map, vo, hvs, f_counts, fh) ==
    IF \E i \in 1 .. Len(hvs) : fh[i].panic THEN NoCatalogue
    ELSE CatalogueRidges(config, vo, hvs, f_counts, fh,
            RidgeOrbits(vertex_map, hvs,
                [i \in 1 .. Len(hvs) |-> fh[i].possible_facets_row],
                [i \in 1 .. Len(hvs) |-> fh[i].ridges_row]))

\* faceting_subdim: an orbit is the list of its hyperplanes' vertex lists, its
\* first one is faceted and f_counts[i] = orbit.len()
CatalogueHyperplanes(config, vertex_map, vo, hy) ==
    IF hy.panic \/ \E i \in 1 .. Len(hy.hyperplanes_vertices) :
                        hy.hyperplanes_vertices[i] = <<>>
    THEN NoCatalogue
    ELSE CatalogueFacets(config, vertex_map, vo,
            [i \in 1 .. Len(hy.hyperplanes_vertices) |-> hy.hyperplanes_vertices[i][1]],
            [i \in 1 .. Len(hy.hyperplanes_vertices) |-> Len(hy.hyperplanes_vertices[i])],
            [i \in 1 .. Len(hy.hyperplanes_vertices) |->
                FacetHyperplane(vertex_map, hy.hyperplanes_vertices[i][1])])

CataloguePairs(config, vertex_map, vo, po) ==
    IF po.panic THEN NoCatalogue
    ELSE CatalogueHyperplanes(config, vertex_map, vo,
            Hyperplanes(config, vertex_map, po.pair_orbits))

CatalogueOrbits(config, vertex_map, vo) ==
    CataloguePairs(config, vertex_map, vo,
        PairOrbits(config.n, vertex_map, vo.vertex_orbits))

Catalogue(config, vertex_map) ==
    CatalogueOrbits(config, vertex_map, VertexOrbits(config.n, vertex_map))

(***************************************************************************)
(* The stack search: one pass of "while let Some(..) = pop_back()"         *)
(***************************************************************************)
\* binary: the first index whose hyperplane orbit is greater than min
RECURSIVE BinaryLoop(_, _, _, _)
BinaryLoop(vec, min, lo, hi) ==
    IF hi - lo > 1
    THEN LET c == (lo + hi) \div 2
         IN IF At(vec, c)[1] > min THEN BinaryLoop(vec, min, lo, c)
            ELSE BinaryLoop(vec, min, c, hi)
    ELSE hi

\* the search that skips nothing
BinaryNone(vec, min) == 0

binary(vec, min) == BinaryLoop(vec, min, -1, Len(vec))

\* the loop adding the last facet's multiplicities to the cached ones, left
\* at the first ridge orbit that exceeds 2
RECURSIVE AddMuls(_, _, _, _, _, _)
AddMuls(c, hp, f, ridge_idxs_local, k, muls) ==
    IF k > Len(ridge_idxs_local) THEN muls
    ELSE LET ridge_idx == ridge_idxs_local[k]
             ridge_orbit == At(At(At(c.ridge_idx_orbits, hp), ridge_idx[1]), ridge_idx[2])
             mul == At(At(c.ridge_muls, hp), f)[ridge_orbit]
             new == [muls EXCEPT ![ridge_orbit + 1] = @ + mul]
         IN IF new[ridge_orbit + 1] > 2 THEN new
            ELSE AddMuls(c, hp, f, ridge_idxs_local, k + 1, new)

NewRidgeMuls(c, facets, cached_ridge_muls) ==
    LET last_facet == Last(facets)
    IN AddMuls(c, last_facet[1], last_facet[2],
               At(At(c.possible_facets, last_facet[1]), last_facet[2]).facets, 1,
               cached_ridge_muls)

\* valid: 0 valid, 1 exotic, 2 incomplete
RECURSIVE ValidFrom(_, _, _)
ValidFrom(new_ridge_muls, k, valid) ==
    IF k > Len(new_ridge_muls) THEN valid
    ELSE IF new_ridge_muls[k] > 2 THEN 1
    ELSE ValidFrom(new_ridge_muls, k + 1, IF new_ridge_muls[k] = 1 THEN 2 ELSE valid)

Valid(new_ridge_muls) == ValidFrom(new_ridge_muls, 1, 0)

\* the split left out: the facet index is kept as it is
SplitQueueKeep(compounds, queue, all_components) == queue

\* the components of facet idx of a hyperplane orbit: the queue of the split
RECURSIVE SplitQueue(_, _, _)
SplitQueue(compounds, queue, all_components) ==
    IF queue = <<>> THEN all_components
    ELSE LET next == queue[1]
         IN IF next \in DOMAIN compounds
            THEN SplitQueue(compounds,
                    Tail(queue) \o <<compounds[next][1], compounds[next][2]>>, all_components)
            ELSE SplitQueue(compounds, Tail(queue), Append(all_components, next))

RECURSIVE SplitFrom(_, _, _)
SplitFrom(compound_facets, facets, k) ==
    IF k > Len(facets) THEN <<>>
    ELSE LET hp == facets[k][1]
             all == SplitQueue(At(compound_facets, hp), <<facets[k][2]>>, <<>>)
         IN [i \in 1 .. Len(all) |-> <<hp, all[i]>>] \o SplitFrom(compound_facets, facets, k + 1)

\* new_facets: the facets with the compound ones split, sorted
SplitFacets(compound_facets, facets) == SortLex(SplitFrom(compound_facets, facets, 1))

\* no hyperplane orbit counts as used
UsedHpsNone(facets) == {}

UsedHps(facets) == {facets[k][1] : k \in 2 .. Len(facets)}

\* the children pushed after a valid combination
RECURSIVE ExtendValidFrom(_, _, _, _, _, _)
ExtendValidFrom(possible_facets, facets, new_ridge_muls, hp, f, acc) ==
    IF hp >= Len(possible_facets) THEN acc
    ELSE IF hp \in UsedHps(facets) \/ f >= Len(At(possible_facets, hp))
    THEN ExtendValidFrom(possible_facets, facets, new_ridge_muls, hp + 1, 0, acc)
    ELSE ExtendValidFrom(possible_facets, facets, new_ridge_muls, hp, f + 1,
            Append(acc, [facets |-> Append(facets, <<hp, f>>), min_hp |-> hp,
                         cached_ridge_muls |-> new_ridge_muls]))

\* the children pushed with the loop over the hyperplane orbits not skipping
\* to min_hp + 1
ExtendValidAll(possible_facets, facets, min_hp, new_ridge_muls) ==
    ExtendValidFrom(possible_facets, facets, new_ridge_muls, 0, 0, <<>>)

\* the children pushed with the parent's min_hp instead of their own hp
ExtendValidKeep(possible_facets, facets, min_hp, new_ridge_muls) ==
    LET pushed == ExtendValidFrom(possible_facets, facets, new_ridge_muls, min_hp + 1, 0, <<>>)
    IN [i \in 1 .. Len(pushed) |-> [pushed[i] EXCEPT !.min_hp = min_hp]]

ExtendValid(possible_facets, facets, min_hp, new_ridge_muls) ==
    ExtendValidFrom(possible_facets, facets, new_ridge_muls, min_hp + 1, 0, <<>>)

\* the children pushed after an incomplete combination
RECURSIVE ExtendOnes(_, _, _, _, _, _)
ExtendOnes(list, k, facets, min_hp, new_ridge_muls, acc) ==
    IF k > Len(list) THEN acc
    ELSE ExtendOnes(list, k + 1, facets, min_hp, new_ridge_muls,
            IF list[k][1] \in UsedHps(facets) THEN acc
            ELSE Append(acc, [facets |-> Append(facets, list[k]), min_hp |-> min_hp,
                              cached_ridge_muls |-> new_ridge_muls]))

ExtendIncomplete(ones, facets, min_hp, new_ridge_muls) ==
    IF \A g \in 1 .. Len(new_ridge_muls) : new_ridge_muls[g] # 1 THEN <<>>
    ELSE LET idx == CHOOSE g \in 1 .. Len(new_ridge_muls) :
                        /\ new_ridge_muls[g] = 1
                        /\ \A j \in 1 .. g - 1 : new_ridge_muls[j] # 1
         IN ExtendOnes(ones[idx], binary(ones[idx], min_hp) + 1, facets, min_hp,
                       new_ridge_muls, <<>>)

\* the queue the search starts from
RECURSIVE InitialQueueFrom(_, _, _, _)
InitialQueueFrom(c, hp, f, acc) ==
    IF hp >= Len(c.possible_facets) THEN acc
    ELSE IF f >= Len(At(c.possible_facets, hp)) THEN InitialQueueFrom(c, hp + 1, 0, acc)
    ELSE InitialQueueFrom(c, hp, f + 1,
            Append(acc, [facets |-> << <<hp, f>> >>, min_hp |-> hp,
                         cached_ridge_muls |-> [g \in 1 .. Len(c.ridge_counts) |-> 0]]))

InitialQueue(c) == InitialQueueFrom(c, 0, 0, <<>>)

(***************************************************************************)
(* The polytope built from an accepted combination (rank 3: a polygon)     *)
(***************************************************************************)
RECURSIVE FacetImages(_, _, _, _, _, _)
FacetImages(vertex_map, i, hp_v, facet, checked, acc) ==
    IF i > Len(vertex_map) THEN acc
    ELSE LET new_vertices == SortNat(MapRow(vertex_map[i], hp_v))
         IN IF new_vertices \in checked
            THEN FacetImages(vertex_map, i + 1, hp_v, facet, checked, acc)
            ELSE FacetImages(vertex_map, i + 1, hp_v, facet, checked \cup {new_vertices},
                    Append(acc, ImageRanks(facet, vertex_map[i])))

RECURSIVE FacetVecFrom(_, _, _, _)
FacetVecFrom(c, vertex_map, new_facets, k) ==
    IF k > Len(new_facets) THEN <<>>
    ELSE LET facet_orbit == new_facets[k]
             facet == At(At(c.possible_facets_global, facet_orbit[1]), facet_orbit[2]).ranks
         IN FacetImages(vertex_map, 1, At(c.hyperplane_reps, facet_orbit[1]),
                        facet, {}, <<>>)
            \o FacetVecFrom(c, vertex_map, new_facets, k + 1)

\* ranks at rank 3 (no pass of the loop "for r in 2..rank-1"): nullitope,
\* vertices, one facet per entry of facet_vec, body
BuildRanks(c, vertex_map, new_facets) ==
    LET facet_vec == FacetVecFrom(c, vertex_map, new_facets, 1)
    IN << << <<>> >>,
          [v \in 1 .. c.total_vert_count |-> <<0>>],
          [f_i \in 1 .. Len(facet_vec) |-> At(facet_vec[f_i], 2)[1]],
          << [k \in 1 .. Len(facet_vec) |-> k - 1] >> >>

\* ranks2 of the uniform branch: the vertices renumbered as the edges meet them
RECURSIVE ToOldIdx(_, _, _, _)
ToOldIdx(edges, e, k, acc) ==
    IF e > Len(edges) THEN acc
    ELSE IF k > Len(edges[e]) THEN ToOldIdx(edges, e + 1, 1, acc)
    ELSE ToOldIdx(edges, e, k + 1,
            IF Contains(acc, edges[e][k]) THEN acc ELSE Append(acc, edges[e][k]))

Ranks2(ranks) ==
    LET to_old_idx == ToOldIdx(ranks[3], 1, 1, <<>>)
        to_new_idx(sub) == (CHOOSE i \in 1 .. Len(to_old_idx) : to_old_idx[i] = sub) - 1
    IN [ranks EXCEPT
            ![2] = [v \in 1 .. Len(to_old_idx) |-> <<0>>],
            ![3] = [e \in 1 .. Len(ranks[3]) |->
                        [k \in 1 .. Len(ranks[3][e]) |-> to_new_idx(ranks[3][e][k])]]]

\* Ranks::is_dyadic: every element and every element two ranks below it that
\* it reaches have exactly two elements between them
is_dyadic(R) ==
    \A r \in 2 .. Len(R) - 1 : \A e \in 1 .. Len(At(R, r)) :
        LET subs == SeqToSet(At(R, r)[e])
        IN \A s \in subs : \A ss \in SeqToSet(At(At(R, r - 1), s)) :
            Cardinality({t \in subs : ss \in SeqToSet(At(At(R, r - 1), t))}) = 2

(***************************************************************************)
(* label_mixed_compounds                                                   *)
(***************************************************************************)
\* the scan of vec[a] (from position k) for the elements of vec[b] (from
\* index i): TRUE when the last element of vec[b] is met
RECURSIVE SubsetScan(_, _, _, _)
SubsetScan(va, vb, k, i) ==
    IF k > Len(va) THEN FALSE
    ELSE IF LexLt(va[k], At(vb, i)) THEN SubsetScan(va, vb, k + 1, i)
    ELSE IF LexLt(At(vb, i), va[k]) THEN FALSE
    ELSE IF i + 1 >= Len(vb) THEN TRUE
    ELSE SubsetScan(va, vb, k + 1, i + 1)

RECURSIVE ComplementFrom(_, _, _, _)
ComplementFrom(va, vb, k, j) ==
    IF k > Len(va) THEN <<>>
    ELSE IF j >= Len(vb) \/ LexLt(va[k], At(vb, j))
    THEN <<va[k]>> \o ComplementFrom(va, vb, k + 1, j)
    ELSE ComplementFrom(va, vb, k + 1, j + 1)

\* the complement with j started at 1
ComplementOffByOne(va, vb) == ComplementFrom(va, vb, 1, 1)

Complement(va, vb) == ComplementFrom(va, vb, 1, 0)

\* the search with the panic left out: a's loop goes on to the next a
LabelFoundSkip(vec, a, b) ==
    LET complement == Complement(At(vec, a), At(vec, b))
        cs == {c \in b + 1 .. Len(vec) - 1 : At(vec, c) = complement}
    IN IF cs = {} THEN [kind |-> "none", b |-> 0, c |-> 0]
       ELSE [kind |-> "found", b |-> b,
             c |-> CHOOSE c \in cs : \A d \in cs : c <= d]

\* vec[b] is a sub-list of vec[a]: "for c in b+1..vec.len()" looks for its
\* complement, and the panic follows the loop
LabelFound(vec, a, b) ==
    LET complement == Complement(At(vec, a), At(vec, b))
        cs == {c \in b + 1 .. Len(vec) - 1 : At(vec, c) = complement}
    IN IF cs = {} THEN [kind |-> "panic", b |-> b, c |-> 0]
       ELSE [kind |-> "found", b |-> b,
             c |-> CHOOSE c \in cs : \A d \in cs : c <= d]

\* the loop over b for one a: "none", "found" with (b, c), or "panic"
RECURSIVE LabelB(_, _, _)
LabelB(vec, a, b) ==
    IF b >= Len(vec) THEN [kind |-> "none", b |-> 0, c |-> 0]
    ELSE IF Len(At(vec, b)) >= Len(At(vec, a)) THEN LabelB(vec, a, b + 1)
    ELSE IF At(vec, b) = <<>> THEN [kind |-> "panic", b |-> b, c |-> 0]
    ELSE IF LexLt(At(vec, a)[1], At(vec, b)[1]) THEN [kind |-> "none", b |-> 0, c |-> 0]
    ELSE IF SubsetScan(At(vec, a), At(vec, b), 1, 0) THEN LabelFound(vec, a, b)
    ELSE LabelB(vec, a, b + 1)

RECURSIVE LabelA(_, _, _)
LabelA(vec, a, out) ==
    IF a >= Len(vec) THEN [panic |-> FALSE, out |-> out]
    ELSE LET r == LabelB(vec, a, 0)
         IN IF r.kind = "panic" THEN [panic |-> TRUE, out |-> out]
            ELSE IF r.kind = "found"
            THEN LabelA(vec, a + 1, (a :> <<r.b, r.c>>) @@ out)
            ELSE LabelA(vec, a + 1, out)

label_mixed_compounds(vec) == LabelA(vec, 0, NoMap)

(***************************************************************************)
(* mark_fissaries.  facetings is the list of the facet lists (the .1 of     *)
(* each faceting); untangles is the set of the indices whose built          *)
(* polytope has a component with a non-empty untangle_elements(r), the      *)
(* result of a check made outside this file.                                *)
(***************************************************************************)
\* every index is marked
MarkAll(facetings, all_fissary_facets, mixed_compounds, untangles) ==
    Range0(Len(facetings))

mark_fissaries(facetings, all_fissary_facets, mixed_compounds, untangles) ==
    {a \in Range0(Len(facetings)) :
        /\ a \notin DOMAIN mixed_compounds
        /\ \/ \E k \in 1 .. Len(At(facetings, a)) :
                    At(facetings, a)[k][2] \in At(all_fissary_facets, At(facetings, a)[k][1])
           \/ a \in untangles}

(***************************************************************************)
(* faceting_subdim at rank 3 run to its return (uniform = false): what a   *)
(* caller one rank up receives                                             *)
(***************************************************************************)
RECURSIVE InsertOutput(_, _)
InsertOutput(s, x) ==
    IF s = <<>> THEN <<x>>
    ELSE IF ListLt(x.facets, s[1].facets) THEN <<x>> \o s
    ELSE <<s[1]>> \o InsertOutput(Tail(s), x)

\* output.sort_by(|a, b| a.1.cmp(&b.1)): a stable sort
RECURSIVE SortOutput(_)
SortOutput(s) ==
    IF s = <<>> THEN <<>>
    ELSE InsertOutput(SortOutput(SubSeq(s, 1, Len(s) - 1)), Last(s))

\* output_ridges: the ranks of possible_facets_global
OutputRidges(c) ==
    [i \in 1 .. Len(c.possible_facets_global) |->
        [j \in 1 .. Len(c.possible_facets_global[i]) |->
            c.possible_facets_global[i][j].ranks]]

\* the value returned after the sorts; fissary_facets is empty as rank <= 3
SubdimLabelled(c, sorted_output, mixed_compounds) ==
    IF mixed_compounds.panic THEN [panic |-> TRUE]
    ELSE [panic |-> FALSE,
          facetings |-> sorted_output,
          counts |-> c.f_counts,
          ridges |-> OutputRidges(c),
          compounds |-> mixed_compounds.out,
          fissary |-> {}]

SubdimReturn(c, output, output_facets) ==
    SubdimLabelled(c, SortOutput(output), label_mixed_compounds(SortLists(output_facets)))

\* a pass of the loop on a valid combination
PassValid(c, vertex_map, max_per_hyperplane, st, popped, rest, muls, new_facets) ==
    IF max_per_hyperplane.some /\ Len(st.output) + 1 >= max_per_hyperplane.val
    THEN [facets_queue |-> rest,
          output |-> Append(st.output,
                        [ranks |-> BuildRanks(c, vertex_map, new_facets),
                         facets |-> new_facets]),
          stop |-> TRUE]
    ELSE [facets_queue |->
                rest \o ExtendValid(c.possible_facets, popped.facets, popped.min_hp, muls),
          output |-> Append(st.output,
                        [ranks |-> BuildRanks(c, vertex_map, new_facets),
                         facets |-> new_facets]),
          stop |-> FALSE]

PassMuls(c, vertex_map, max_per_hyperplane, st, popped, rest, muls) ==
    IF Valid(muls) = 1 THEN [st EXCEPT !.facets_queue = rest]
    ELSE IF Valid(muls) = 2
    THEN [st EXCEPT !.facets_queue =
                rest \o ExtendIncomplete(c.ones, popped.facets, popped.min_hp, muls)]
    ELSE PassValid(c, vertex_map, max_per_hyperplane, st, popped, rest, muls,
                   SplitFacets(c.compound_facets, popped.facets))

\* one pass of "while let Some((facets, min_hp, cached_ridge_muls)) = pop_back()"
SearchPass(c, vertex_map, max_per_hyperplane, st) ==
    PassMuls(c, vertex_map, max_per_hyperplane, st, Last(st.facets_queue),
             SubSeq(st.facets_queue, 1, Len(st.facets_queue) - 1),
             NewRidgeMuls(c, Last(st.facets_queue).facets,
                          Last(st.facets_queue).cached_ridge_muls))

RECURSIVE SearchLoop(_, _, _, _)
SearchLoop(c, vertex_map, max_per_hyperplane, st) ==
    IF st.facets_queue = <<>> \/ st.stop THEN st
    ELSE SearchLoop(c, vertex_map, max_per_hyperplane,
                    SearchPass(c, vertex_map, max_per_hyperplane, st))

SearchDone(c, st) ==
    SubdimReturn(c, st.output, [i \in 1 .. Len(st.output) |-> st.output[i].facets])

SubdimSearch(c, vertex_map, max_per_hyperplane) ==
    IF c.panic THEN [panic |-> TRUE]
    ELSE SearchDone(c, SearchLoop(c, vertex_map, max_per_hyperplane,
                        [facets_queue |-> InitialQueue(c), output |-> <<>>,
                         stop |-> FALSE]))

\* faceting_subdim(3, ..) with uniform = false, mark_fissary = false and
\* noble_package = None
FacetingSubdimPolygon(config, vertex_map, max_per_hyperplane) ==
    SubdimSearch(Catalogue(config, vertex_map), vertex_map, max_per_hyperplane)

(***************************************************************************)
(* filter_mixed_compounds                                                  *)
(***************************************************************************)
\* the loop over b for one a: "keep" (a is pushed), "drop" (continue 'a) or
\* "panic" (vec[b][0] of an empty list)
\* no list is taken for a compound
FilterBKeep(vec, a, b) == "keep"

RECURSIVE FilterB(_, _, _)
FilterB(vec, a, b) ==
    IF b >= Len(vec) THEN "keep"
    ELSE IF Len(At(vec, b)) >= Len(At(vec, a)) THEN FilterB(vec, a, b + 1)
    ELSE IF At(vec, b) = <<>> THEN "panic"
    ELSE IF LexLt(At(vec, a)[1], At(vec, b)[1]) THEN "keep"
    ELSE IF SubsetScan(At(vec, a), At(vec, b), 1, 0) THEN "drop"
    ELSE FilterB(vec, a, b + 1)

RECURSIVE FilterA(_, _, _)
FilterA(vec, a, out) ==
    IF a >= Len(vec) \/ out.panic THEN out
    ELSE FilterA(vec, a + 1,
            IF FilterB(vec, a, 0) = "panic" THEN [out EXCEPT !.panic = TRUE]
            ELSE IF FilterB(vec, a, 0) = "keep" THEN [out EXCEPT !.out = Append(@, a)]
            ELSE out)

\* the indices of the lists that are not compounds, ascending
filter_mixed_compounds(vec) == FilterA(vec, 0, [panic |-> FALSE, out |-> <<>>])

(***************************************************************************)
(* Concrete::faceting at rank 4: the hyperplanes are the planes through    *)
(* three points of a configuration in 3-space                              *)
(***************************************************************************)
\* subsymmetry: the rows that keep the tuple rep as a set
Subsymmetry(vertex_map, rep) ==
    SelectSeq(vertex_map, LAMBDA row : SortNat(MapRow(row, rep)) = rep)

\* possible_vertices: one vertex of each class of the unused vertices
RECURSIVE PossibleVertices(_, _, _, _, _)
PossibleVertices(n, subsymmetry, vertex, used_vertices, acc) ==
    IF vertex >= n THEN acc
    ELSE IF vertex \in used_vertices
    THEN PossibleVertices(n, subsymmetry, vertex + 1, used_vertices, acc)
    ELSE PossibleVertices(n, subsymmetry, vertex + 1,
            used_vertices \cup {At(subsymmetry[i], vertex) : i \in 1 .. Len(subsymmetry)},
            Append(acc, vertex))

\* Subspace::from_points(..).is_hyperplane() of three points of 3-space: they
\* are not on one line
IsHyperplane(config, tuple) == ~ \E l \in config.lines : SeqToSet(tuple) \subseteq l

\* the indices, ascending, of the vertices at distance < EPS of the plane
PlaneVertices(config, tuple) ==
    SetToSortedSeq(CHOOSE pl \in config.planes : SeqToSet(tuple) \subseteq pl)

\* the loop that looks for an image already checked and counts the images
RECURSIVE TopHyperplaneRows(_, _, _, _, _)
TopHyperplaneRows(vertex_map, i, hyperplane_vertices, checked, counting) ==
    IF i > Len(vertex_map) THEN [is_new |-> TRUE, count |-> Cardinality(counting)]
    ELSE IF SortNat(MapRow(vertex_map[i], hyperplane_vertices)) \in checked
    THEN [is_new |-> FALSE, count |-> 0]
    ELSE TopHyperplaneRows(vertex_map, i + 1, hyperplane_vertices, checked,
            counting \cup {SortNat(MapRow(vertex_map[i], hyperplane_vertices))})

TopHyperplanePush(st, hyperplane_vertices, r) ==
    IF r.is_new
    THEN [st EXCEPT !.checked = @ \cup {hyperplane_vertices},
                    !.hyperplane_orbits =
                        Append(@, [vertices |-> hyperplane_vertices, count |-> r.count])]
    ELSE st

TopHyperplaneFound(vertex_map, hyperplane_vertices, st) ==
    TopHyperplanePush(st, hyperplane_vertices,
        TopHyperplaneRows(vertex_map, 1, hyperplane_vertices, st.checked, {}))

TopHyperplaneTuple(config, vertex_map, tuple, st) ==
    IF IsHyperplane(config, tuple)
    THEN TopHyperplaneFound(vertex_map, PlaneVertices(config, tuple), st)
    ELSE st

RECURSIVE TopHyperplaneVertices(_, _, _, _, _, _)
TopHyperplaneVertices(config, vertex_map, rep, possible_vertices, k, st) ==
    IF k > Len(possible_vertices) \/ st.panic THEN st
    ELSE TopHyperplaneVertices(config, vertex_map, rep, possible_vertices, k + 1,
            TopHyperplaneTuple(config, vertex_map, Append(rep, possible_vertices[k]), st))

\* the loop over tuple_orbits, at rank 4 the first pair of each pair orbit
RECURSIVE TopHyperplanesFrom(_, _, _, _, _)
TopHyperplanesFrom(config, vertex_map, pair_orbits, k, st) ==
    IF k > Len(pair_orbits) \/ st.panic THEN st
    ELSE IF pair_orbits[k] = <<>> THEN [st EXCEPT !.panic = TRUE]
    ELSE TopHyperplanesFrom(config, vertex_map, pair_orbits, k + 1,
            TopHyperplaneVertices(config, vertex_map, pair_orbits[k][1],
                PossibleVertices(config.n, Subsymmetry(vertex_map, pair_orbits[k][1]), 0,
                                 SeqToSet(pair_orbits[k][1]), <<>>),
                1, st))

\* hyperplane_orbits: (hyperplane_vertices, counting.len()) of each orbit found
TopHyperplanes(config, vertex_map, pair_orbits) ==
    TopHyperplanesFrom(config, vertex_map, pair_orbits, 1,
        [hyperplane_orbits |-> <<>>, checked |-> {}, panic |-> FALSE])

\* the points of a hyperplane, in the order of hp_v, and the lines through them
SubConfig(config, hp_v) ==
    [n |-> Len(hp_v),
     lines |-> {{i \in Range0(Len(hp_v)) : At(hp_v, i) \in l} :
                    l \in {m \in config.lines : Cardinality(m \cap SeqToSet(hp_v)) >= 2}}]

TopFacetRows(hp_v, new_stabilizer, sub) ==
    IF sub.panic THEN [panic |-> TRUE] ELSE FacetRows(hp_v, new_stabilizer, sub)

TopFacetStabilized(config, max_per_hyperplane, hp_v, new_stabilizer) ==
    TopFacetRows(hp_v, new_stabilizer,
        FacetingSubdimPolygon(SubConfig(config, hp_v), new_stabilizer, max_per_hyperplane))

TopFacetHyperplaneOf(config, max_per_hyperplane, hp_v, stabilizer) ==
    IF stabilizer = <<>> THEN [panic |-> TRUE]
    ELSE TopFacetStabilized(config, max_per_hyperplane, hp_v, NewStabilizer(stabilizer))

\* what the loop over hyperplane_orbits computes for one orbit (noble # Some(1))
TopFacetHyperplane(config, vertex_map, max_per_hyperplane, hp_v) ==
    TopFacetHyperplaneOf(config, max_per_hyperplane, hp_v, Stabilizer(vertex_map, hp_v))

TopCatalogueHyperplanes(config, vertex_map, max_per_hyperplane, vo, hy) ==
    IF hy.panic THEN NoCatalogue
    ELSE CatalogueFacets(config, vertex_map, vo,
            [i \in 1 .. Len(hy.hyperplane_orbits) |-> hy.hyperplane_orbits[i].vertices],
            [i \in 1 .. Len(hy.hyperplane_orbits) |-> hy.hyperplane_orbits[i].count],
            [i \in 1 .. Len(hy.hyperplane_orbits) |->
                TopFacetHyperplane(config, vertex_map, max_per_hyperplane,
                                   hy.hyperplane_orbits[i].vertices)])

TopCataloguePairs(config, vertex_map, max_per_hyperplane, vo, po) ==
    IF po.panic THEN NoCatalogue
    ELSE TopCatalogueHyperplanes(config, vertex_map, max_per_hyperplane, vo,
            TopHyperplanes(config, vertex_map, po.pair_orbits))

TopCatalogueOrbits(config, vertex_map, max_per_hyperplane, vo) ==
    TopCataloguePairs(config, vertex_map, max_per_hyperplane, vo,
        PairOrbits(config.n, vertex_map, vo.vertex_orbits))

\* everything Concrete::faceting computes before its search
TopCatalogue(config, vertex_map, max_per_hyperplane) ==
    TopCatalogueOrbits(config, vertex_map, max_per_hyperplane,
        VertexOrbits(config.n, vertex_map))

(***************************************************************************)
(* The polytope Concrete::faceting builds from a facet list (rank 4)       *)
(***************************************************************************)
RECURSIVE ConcatEdges(_, _)
ConcatEdges(facet_vec, i) ==
    IF i > Len(facet_vec) THEN <<>>
    ELSE At(facet_vec[i], 2) \o ConcatEdges(facet_vec, i + 1)

\* the index idx a key was inserted with
IndexOf(keys, x) == (CHOOSE i \in 1 .. Len(keys) : keys[i] = x) - 1

\* facet_vec[i][2] with the vertices renumbered by to_new_idx
Renumbered(facet_vec, to_old_idx) ==
    [i \in 1 .. Len(facet_vec) |->
        [facet_vec[i] EXCEPT ![3] =
            [j \in 1 .. Len(@) |-> [k \in 1 .. Len(@[j]) |-> IndexOf(to_old_idx, @[j][k])]]]]

\* the keys of subs_to_idx in the order of their idx
RECURSIVE DistinctFrom(_, _, _)
DistinctFrom(list, k, acc) ==
    IF k > Len(list) THEN acc
    ELSE DistinctFrom(list, k + 1, IF Contains(acc, list[k]) THEN acc ELSE Append(acc, list[k]))

\* ranks: nullitope, vertices, edges (the pass r = 2), facets, body
TopRanks(facet_vec, to_old_idx, edges) ==
    << << <<>> >>,
       [v \in 1 .. Len(to_old_idx) |-> <<0>>],
       edges,
       [f_i \in 1 .. Len(facet_vec) |->
            [k \in 1 .. Len(At(facet_vec[f_i], 3)[1]) |->
                IndexOf(edges, At(At(facet_vec[f_i], 2), At(facet_vec[f_i], 3)[1][k]))]],
       << [k \in 1 .. Len(facet_vec) |-> k - 1] >> >>

TopRenumbered(facet_vec, to_old_idx) ==
    TopRanks(facet_vec, to_old_idx, DistinctFrom(ConcatEdges(facet_vec, 1), 1, <<>>))

TopAssemble(facet_vec) ==
    TopRenumbered(Renumbered(facet_vec, ToOldIdx(ConcatEdges(facet_vec, 1), 1, 1, <<>>)),
                  ToOldIdx(ConcatEdges(facet_vec, 1), 1, 1, <<>>))

TopBuildRanks(c, vertex_map, facets) == TopAssemble(FacetVecFrom(c, vertex_map, facets, 1))

(***************************************************************************)
(* The inputs: planar configurations and their symmetry tables             *)
(***************************************************************************)
Identity(n) == [v \in 1 .. n |-> v - 1]

Compose(p, q) == [v \in 1 .. Len(q) |-> At(p, q[v])]

\* the symmetries of a regular polygon: rotations and reflections
Dihedral(n) ==
    {[v \in 1 .. n |-> ((v - 1) + k) % n] : k \in Range0(n)}
        \cup {[v \in 1 .. n |-> (k + n - (v - 1)) % n] : k \in Range0(n)}

RECURSIVE Closure(_)
Closure(S) ==
    LET T == S \cup {Compose(p, q) : p \in S, q \in S}
    IN IF T = S THEN S ELSE Closure(T)

IsGroup(n, S) == Identity(n) \in S /\ \A p \in S, q \in S : Compose(p, q) \in S

RECURSIVE SortedSeqOfSet(_)
SortedSeqOfSet(S) ==
    IF S = {} THEN <<>>
    ELSE LET m == CHOOSE x \in S : \A y \in S : ~ LexLt(y, x)
         IN <<m>> \o SortedSeqOfSet(S \ {m})

Pairs(n) == {{a, b} : a \in Range0(n), b \in Range0(n)} \ {{a} : a \in Range0(n)}

\* a convex polygon: no three points on a line, all the points in one plane
Polygon(n) == [n |-> n, lines |-> Pairs(n), planes |-> {Range0(n)}, syms |-> Dihedral(n)]

\* an isosceles triangle 0, 2, 3 with the midpoint 1 of its base
MidTriangle ==
    [n |-> 4, lines |-> {{0, 1, 2}, {0, 3}, {1, 3}, {2, 3}}, planes |-> {Range0(4)},
     syms |-> {<<0, 1, 2, 3>>, <<2, 1, 0, 3>>}]

\* two points, and three points on a line: what a line of a planar
\* configuration holds
Segment == [n |-> 2, lines |-> {{0, 1}}, planes |-> {}, syms |-> Dihedral(2)]
Collinear ==
    [n |-> 3, lines |-> {{0, 1, 2}}, planes |-> {},
     syms |-> {<<0, 1, 2>>, <<2, 1, 0>>}]

VertexPermutations(n) == {p \in [1 .. n -> Range0(n)] : \A i, j \in 1 .. n : p[i] = p[j] => i = j}

\* a regular tetrahedron
Tetrahedron ==
    [n |-> 4, lines |-> Pairs(4),
     planes |-> {pl \in SUBSET Range0(4) : Cardinality(pl) = 3},
     syms |-> VertexPermutations(4)]

\* a square pyramid: the square 0, 1, 2, 3 and the apex 4
Pyramid ==
    [n |-> 5, lines |-> Pairs(5),
     planes |-> {{0, 1, 2, 3}, {0, 1, 4}, {1, 2, 4}, {2, 3, 4}, {0, 3, 4},
                 {0, 2, 4}, {1, 3, 4}},
     syms |-> {Append(d, 4) : d \in Dihedral(4)}]

\* a regular octahedron: v and 5 - v are opposite
Octahedron ==
    [n |-> 6, lines |-> Pairs(6),
     planes |-> {pl \in SUBSET Range0(6) :
                    \/ Cardinality(pl) = 3 /\ \A v \in pl : 5 - v \notin pl
                    \/ Cardinality(pl) = 4 /\ \A v \in pl : 5 - v \in pl},
     syms |-> {p \in VertexPermutations(6) : \A i \in 1 .. 6 : p[7 - i] = 5 - p[i]}]

\* a pyramid on a regular hexagon 0 .. 5 with the apex 6, under the rotations
\* by a third of a turn and the reflections that keep vertex 0, 2 or 4: the
\* two triangles of the hexagon are two orbits, and their union is a compound
\* facet of the base
HexPyramid ==
    [n |-> 7, lines |-> Pairs(7),
     planes |-> {Range0(6)} \cup {pl \cup {6} : pl \in Pairs(6)},
     syms |-> {[v \in 1 .. 7 |-> IF v = 7 THEN 6 ELSE ((v - 1) + k) % 6] : k \in {0, 2, 4}}
                \cup {[v \in 1 .. 7 |-> IF v = 7 THEN 6 ELSE (k + 6 - (v - 1)) % 6] :
                            k \in {0, 2, 4}}]

Solids ==
    {Tetrahedron, HexPyramid}
        \cup (IF MaxSolidPoints >= 5 THEN {Pyramid} ELSE {})
        \cup (IF MaxSolidPoints >= 6 THEN {Octahedron} ELSE {})

Configs(r) ==
    IF r = 2 THEN {Segment, Collinear}
    ELSE IF r = 3 THEN {Polygon(n) : n \in 3 .. MaxPoints} \cup {MidTriangle}
    ELSE Solids

\* the subsets of S of at most k elements
RECURSIVE SubsetsUpTo(_, _)
SubsetsUpTo(S, k) ==
    IF k = 0 THEN {{}}
    ELSE LET smaller == SubsetsUpTo(S, k - 1)
         IN smaller \cup {T \cup {x} : T \in smaller, x \in S}

GeneratorSets(config) == SubsetsUpTo(config.syms, MaxGens)

\* the tables that are groups: the identity first, the rows in order; the
\* groups generated by the generator sets and the whole symmetry group
GroupTables(config) ==
    {SortedSeqOfSet(Closure(G \cup {Identity(config.n)})) : G \in GeneratorSets(config)}
        \cup {SortedSeqOfSet(config.syms)}

\* tables that are not closed: the identity and generators only
OpenTables(config) ==
    {<<Identity(config.n)>> \o SortedSeqOfSet(G) :
        G \in {H \in GeneratorSets(config) :
                    Identity(config.n) \notin H
                    /\ ~ IsGroup(config.n, H \cup {Identity(config.n)})}}

\* the tables a caller hands over: an induced stabilizer starts with the
\* identity, and may hold each row several times
Tables(config) ==
    IF config = HexPyramid THEN {SortedSeqOfSet(config.syms)}
    ELSE GroupTables(config) \cup OpenTables(config)
            \cup {t \o t : t \in GroupTables(config)}

\* the test with the bound one too low
UnsupportedBelow3(r) == r < 3

\* "if rank < 4": faceting polytopes of rank less than 3 is not supported
Unsupported(r) == r < 4

None == [some |-> FALSE, val |-> 0]
Some(m) == [some |-> TRUE, val |-> m]

(***************************************************************************)
(* Matrix groups: GenIter (src/src/polytope/group.rs), Cyclic              *)
(* (src/miratope-core/src/group/cyclic.rs) and Concrete::get_vertex_map    *)
(* (src/miratope-core/src/conc/symmetry.rs).  A matrix is the tuple of its *)
(* rows, a point the tuple of its coordinates; the entries are integers,   *)
(* so that products are exact.                                             *)
(***************************************************************************)
Dimensions == 2

\* Matrix::identity(dimensions, dimensions)
IdentityMatrix == [i \in 1 .. Dimensions |-> [j \in 1 .. Dimensions |-> IF i = j THEN 1 ELSE 0]]

RECURSIVE DotFrom(_, _, _, _)
DotFrom(a, b, j, k) ==
    IF k > Dimensions THEN 0 ELSE a[k] * b[k][j] + DotFrom(a, b, j, k + 1)

\* el * gen
MatMul(a, b) ==
    [i \in 1 .. Dimensions |-> [j \in 1 .. Dimensions |-> DotFrom(a[i], b, j, 1)]]

\* isometry * vertex
MatVec(m, p) ==
    [i \in 1 .. Dimensions |-> DotFrom(m[i], [k \in 1 .. Dimensions |-> <<p[k]>>], 1, 1)]

AbsInt(x) == IF x < 0 THEN 0 - x ELSE x

\* matrix_approx: no entry differs by more than EPS (entries are integers)
matrix_approx(mat1, mat2) ==
    \A i, j \in 1 .. Dimensions : ~ (AbsInt(mat1[i][j] - mat2[i][j]) > 0)

\* GenIter::contains
GenContains(elements, el) ==
    \E k \in 1 .. Len(elements) : matrix_approx(elements[k], el)

NoItem == [some |-> FALSE, val |-> <<>>]
Item(x) == [some |-> TRUE, val |-> x]

\* only the first generator is ever used
NextElGenFirst(it) == [it EXCEPT !.el_idx = it.el_idx + 1]

\* next_el_gen: the indices advanced past the pair it returns
NextElGen(it) ==
    IF it.gen_idx + 1 = Len(it.generators)
    THEN [it EXCEPT !.gen_idx = 0, !.el_idx = it.el_idx + 1]
    ELSE [it EXCEPT !.gen_idx = it.gen_idx + 1]

\* GenIter::try_next: "New", "Repeat" or "None", and the iterator afterwards
try_next(it) ==
    IF it.el_idx < Len(it.elements)
    THEN LET new_el == MatMul(At(it.elements, it.el_idx), At(it.generators, it.gen_idx))
         IN  IF GenContains(it.elements, new_el)
             THEN [kind |-> "Repeat", el |-> new_el, it |-> NextElGen(it)]
             ELSE [kind |-> "New", el |-> new_el,
                   it |-> [NextElGen(it) EXCEPT !.elements = Append(it.elements, new_el)]]
    ELSE IF it.elements = <<>>
         THEN [kind |-> "New", el |-> IdentityMatrix,
               it |-> [it EXCEPT !.elements = <<IdentityMatrix>>]]
         ELSE [kind |-> "None", el |-> IdentityMatrix, it |-> it]

\* GenIter::next: try_next until it is not a Repeat
RECURSIVE GenIterNext(_)
GenIterNext(it) ==
    LET r == try_next(it)
    IN  IF r.kind = "Repeat" THEN GenIterNext(r.it) ELSE r

\* GenIter::new
GenIterNew(generators) ==
    [generators |-> generators, elements |-> <<>>, el_idx |-> 0, gen_idx |-> 0]

\* everything a GenIter yields, in order
RECURSIVE GenCollectFrom(_)
GenCollectFrom(it) ==
    LET r == GenIterNext(it)
    IN  IF r.kind = "None" THEN it.elements ELSE GenCollectFrom(r.it)

GenCollect(generators) == GenCollectFrom(GenIterNew(generators))

\* the end test against the identity instead of the generator
CyclicEndIdentity(generator, next) == next = IdentityMatrix

\* "if cur.eq(&self.generator)": the cycle is back at its start
CyclicEnd(generator, next) == next = generator

\* Cyclic::next: the item returned and the new cur
CyclicNext(generator, cur) ==
    IF ~ cur.some THEN [res |-> NoItem, cur |-> cur]
    ELSE LET next == MatMul(cur.val, generator)
         IN  [res |-> Item(cur.val),
              cur |-> IF CyclicEnd(generator, next) THEN NoItem ELSE Item(next)]

\* the order PointOrd puts two points in: the first differing coordinate
RECURSIVE PointLtFrom(_, _, _)
PointLtFrom(p, q, k) ==
    IF k > Dimensions THEN FALSE
    ELSE IF p[k] # q[k] THEN p[k] < q[k]
    ELSE PointLtFrom(p, q, k + 1)

PointLt(p, q) == PointLtFrom(p, q, 1)

\* BTreeMap::from_iter(vertices.zip(0..)): the entries <<point, idx>> in the
\* order of their keys; a later entry with the same key replaces the earlier
RECURSIVE BTreeInsert(_, _)
BTreeInsert(map, e) ==
    IF map = <<>> THEN <<e>>
    ELSE IF map[1][1] = e[1] THEN <<e>> \o Tail(map)
    ELSE IF PointLt(e[1], map[1][1]) THEN <<e>> \o map
    ELSE <<map[1]>> \o BTreeInsert(Tail(map), e)

RECURSIVE BTreeFrom(_, _, _)
BTreeFrom(points, idx, map) ==
    IF idx >= Len(points) THEN map
    ELSE BTreeFrom(points, idx + 1, BTreeInsert(map, <<At(points, idx), idx>>))

BTreeMap(points) == BTreeFrom(points, 0, <<>>)

\* vertices.get(&new_vertex)
BTreeGet(map, key) ==
    IF \E k \in 1 .. Len(map) : map[k][1] = key
    THEN Item((CHOOSE e \in SeqToSet(map) : e[1] = key)[2])
    ELSE NoItem

\* "for vertex in &vertices { ... vertex_map_row.push(*idx) }": one entry for
\* each key of the map, in the order of the keys
VertexMapRow(map, isometry) ==
    [k \in 1 .. Len(map) |-> BTreeGet(map, MatVec(isometry, map[k][1]))]

\* get_vertex_map: a row for each isometry; unreachable!() when an image is
\* not a vertex
get_vertex_map(points, group) ==
    LET map == BTreeMap(points)
        rows == [g \in 1 .. Len(group) |-> VertexMapRow(map, group[g])]
    IN  IF \E g \in 1 .. Len(rows) : \E k \in 1 .. Len(rows[g]) : ~ rows[g][k].some
        THEN [panic |-> TRUE, vertex_map |-> <<>>]
        ELSE [panic |-> FALSE,
              vertex_map |-> [g \in 1 .. Len(rows) |->
                                [k \in 1 .. Len(rows[g]) |-> rows[g][k].val]]]

\* The inputs: the signed permutation matrices of the plane, the generator
\* lists over them, and the vertex lists they are symmetries of
MaxGenerators == 2
MaxCalls == 2

SignedPermutations ==
    {<<<<a, 0>>, <<0, b>>>> : a, b \in {-1, 1}}
        \cup {<<<<0, a>>, <<b, 0>>>> : a, b \in {-1, 1}}

GeneratorLists ==
    UNION {[1 .. n -> SignedPermutations] : n \in 1 .. MaxGenerators}

SquarePoints == {<<a, b>> : a, b \in {-1, 1}}
DiamondPoints == {<<1, 0>>, <<0, 1>>, <<-1, 0>>, <<0, -1>>}
RectanglePoints == {<<2 * a, b>> : a, b \in {-1, 1}}
PointSets == {SquarePoints, DiamondPoints, RectanglePoints}

\* the vertex lists: a point set stored in any order
VertexLists ==
    UNION {{s \in [1 .. Cardinality(P) -> P] : SeqToSet(s) = P} : P \in PointSets}

\* the groups of symmetries of a vertex list, as GenIter enumerates them
SymmetryGroups(points) ==
    {GenCollect(gs) :
        gs \in {g \in GeneratorLists :
                    \A k \in 1 .. Len(g) : \A p \in SeqToSet(points) :
                        MatVec(g[k], p) \in SeqToSet(points)}}

(***************************************************************************)
(* Rank structures for Ranks::element_sort_strong called on its own: a     *)
(* polygon, a tetrahedron, and the same with the elements of a rank listed *)
(* in another order                                                        *)
(***************************************************************************)
\* a polygon on n vertices: the edges v, v + 1 and the polygon
PolygonRanks(n) ==
    << << <<>> >>, [v \in 1 .. n |-> <<0>>],
       [e \in 1 .. n |-> <<e - 1, e % n>>], << [e \in 1 .. n |-> e - 1] >> >>

\* a tetrahedron: six edges, four triangles and the solid
TetrahedronRanks ==
    << << <<>> >>, [v \in 1 .. 4 |-> <<0>>],
       << <<0, 1>>, <<0, 2>>, <<0, 3>>, <<1, 2>>, <<1, 3>>, <<2, 3>> >>,
       << <<0, 1, 3>>, <<0, 2, 4>>, <<1, 2, 5>>, <<3, 4, 5>> >>,
       << <<0, 1, 2, 3>> >> >>

BaseRanks == {PolygonRanks(n) : n \in 3 .. MaxPoints} \cup {TetrahedronRanks}

\* the elements of rank r listed in the order p (p[i] the old index of the
\* element now at index i - 1), the incidences of rank r + 1 renumbered
RelistRank(R, r, p) ==
    LET inv == [j \in Range0(Len(p)) |-> (CHOOSE i \in 1 .. Len(p) : p[i] = j) - 1]
    IN  [R EXCEPT ![r + 1] = [i \in 1 .. Len(p) |-> At(R[r + 1], p[i])],
                  ![r + 2] = [e \in 1 .. Len(R[r + 2]) |->
                                [k \in 1 .. Len(R[r + 2][e]) |-> inv[R[r + 2][e][k]]]]]

\* the ranks 2 .. R.len() - 2 relisted, each in any order
RECURSIVE RelistingsFrom(_, _)
RelistingsFrom(R, r) ==
    IF r > Len(R) - 2 THEN {R}
    ELSE UNION {RelistingsFrom(RelistRank(R, r, p), r + 1) :
                    p \in VertexPermutations(Len(At(R, r)))}

Relistings(R) == RelistingsFrom(R, 2)

(***************************************************************************)
(* faceting_subdim (ranks 2 and 3) and Concrete::faceting (ranks 3 and 4)  *)
(* as a state machine                                                      *)
(***************************************************************************)
VARIABLES
    entry,              \* the function called: "faceting_subdim" or "faceting"
    rank,               \* the rank faceted
    config,             \* the points (their number, their lines and planes)
    vertex_map,         \* the symmetry table
    uniform,            \* the argument uniform
    max_per_hyperplane, \* the argument max_per_hyperplane
    noble,              \* the argument noble of Concrete::faceting
    include_compounds,  \* the argument include_compounds of Concrete::faceting
    cat,                \* what is computed before the search
    facets_queue,       \* the stack of partial combinations
    output,             \* the accepted facetings (faceting_subdim), the built
                        \* polytopes (Concrete::faceting)
    output_facets,      \* the facet lists of the accepted combinations
    chosen,             \* history: the (h, f) pairs of each accepted combination
    skipped,            \* the count of non-isogonal facetings skipped
    dropped,            \* history: the facet lists built but not output
    build_idx,          \* the position of the loop "for facets in output_facets"
    pc,                 \* "call", "search", "sort", "build", "done" or "panic"
    ret,                \* the value faceting_subdim returns
    vec,                \* the argument of label_mixed_compounds
    mixed_compounds,    \* the map label_mixed_compounds returns
    vertices,           \* self.vertices of get_vertex_map
    group,              \* the argument group of get_vertex_map
    generators,         \* GenIter: the generators
    elements,           \* GenIter: the elements generated so far
    el_idx,             \* GenIter: the index of the element to multiply next
    gen_idx,            \* GenIter: the index of the generator to multiply by
    generator,          \* Cyclic: the generator
    cur,                \* Cyclic: the item to return next, if any
    yielded,            \* history: the items next() has returned
    nones,              \* history: the number of times next() returned None
    self,               \* the Ranks element_sort_strong is called on
    relisted,           \* the same Ranks with its elements listed in another order
    sorted_ranks,       \* the Ranks after element_sort_strong: of self, and of
                        \* relisted once and twice
    mark_fissary,       \* the argument mark_fissary of faceting_subdim
    all_fissary_facets, \* the fissary sets of the hyperplane orbits' facetings
    output_idxs,        \* what filter_mixed_compounds returns for vec
    hp_v,               \* the vertex list of a hyperplane whose stabilizer is induced
    new_stabilizer      \* the table passed to the recursive call for hp_v

vars == <<entry, rank, config, vertex_map, uniform, max_per_hyperplane, noble,
          include_compounds, cat, facets_queue, output, output_facets, chosen,
          skipped, dropped, build_idx, pc, ret, vec, mixed_compounds,
          vertices, group, generators, elements, el_idx, gen_idx, generator, cur,
          yielded, nones, self, relisted, sorted_ranks, hp_v,
          new_stabilizer, output_idxs, mark_fissary, all_fissary_facets>>

NotFiltered == [panic |-> FALSE, out |-> <<>>]

label_vars == <<vec, mixed_compounds, output_idxs>>

iter_vars == <<generators, elements, el_idx, gen_idx, generator, cur, yielded, nones>>

group_vars == <<vertices, group, iter_vars>>

call == <<entry, rank, config, uniform, max_per_hyperplane, noble, include_compounds>>

sort_vars == <<self, relisted, sorted_ranks>>

stabilizer_vars == <<hp_v, new_stabilizer>>

fissary_vars == <<mark_fissary, all_fissary_facets>>

inputs == <<call, vertex_map, group_vars, sort_vars, stabilizer_vars, fissary_vars>>

NoRanks == << >>

\* no call of element_sort_strong on its own
NoSort ==
    /\ self = NoRanks /\ relisted = NoRanks /\ sorted_ranks = NoRanks
    /\ hp_v = <<>> /\ new_stabilizer = <<>>
    /\ mark_fissary = FALSE /\ all_fissary_facets = <<>>

\* no iterator and no matrix group
NoGroup ==
    /\ vertices = <<>>
    /\ group = <<>>
    /\ generators = <<>>
    /\ elements = <<>>
    /\ el_idx = 0
    /\ gen_idx = 0
    /\ generator = IdentityMatrix
    /\ cur = NoItem
    /\ yielded = <<>>
    /\ nones = 0

Init ==
    /\ entry \in {"faceting_subdim", "faceting"}
    /\ rank \in (IF entry = "faceting_subdim" THEN {2, 3} ELSE {3, 4})
    /\ config \in Configs(rank)
    /\ vertex_map \in Tables(config)
    /\ uniform \in (IF entry = "faceting_subdim" THEN BOOLEAN ELSE {FALSE})
    /\ max_per_hyperplane \in {None} \cup {Some(m) : m \in 1 .. MaxCap}
    /\ noble \in (IF entry = "faceting" THEN {None} \cup {Some(m) : m \in 2 .. MaxNoble}
                  ELSE {None})
    /\ include_compounds \in (IF entry = "faceting" THEN BOOLEAN ELSE {TRUE})
    /\ cat = NoCatalogue
    /\ facets_queue = <<>>
    /\ output = <<>>
    /\ output_facets = <<>>
    /\ chosen = <<>>
    /\ skipped = 0
    /\ dropped = <<>>
    /\ build_idx = 0
    /\ pc = "call"
    /\ ret = EmptyResult
    /\ vec = <<>>
    /\ mixed_compounds = NoMap
    /\ output_idxs = NotFiltered
    /\ NoGroup
    /\ NoSort

\* rank == 2: the dyad, or nothing
DyadCall ==
    /\ pc = "call" /\ entry = "faceting_subdim" /\ rank = 2
    /\ ret' = FacetingSubdimDyad(config.n, vertex_map)
    /\ pc' = "done"
    /\ UNCHANGED <<inputs, label_vars, cat, facets_queue, output, output_facets, chosen, skipped,
                   dropped, build_idx>>

\* rank == 3, up to the first pass of the search
Enumerate ==
    /\ pc = "call" /\ entry = "faceting_subdim" /\ rank = 3
    /\ cat' = Catalogue(config, vertex_map)
    /\ IF cat'.panic
       THEN pc' = "panic" /\ facets_queue' = <<>>
       ELSE pc' = "search" /\ facets_queue' = InitialQueue(cat')
    /\ UNCHANGED <<inputs, label_vars, output, output_facets, chosen, skipped, dropped, build_idx,
                   ret>>

\* the cap tested one faceting too late
CapReachedLate(max, len) == max.some /\ len > max.val

\* "if let Some(max) = max_per_hyperplane { if output.len() >= max": the cap
\* on the accepted facetings is reached
CapReached(max, len) == max.some /\ len >= max.val

Popped == Last(facets_queue)
Rest == SubSeq(facets_queue, 1, Len(facets_queue) - 1)
PoppedMuls == NewRidgeMuls(cat, Popped.facets, Popped.cached_ridge_muls)

\* valid == 1: the branch is dropped
PopExotic ==
    /\ pc = "search" /\ entry = "faceting_subdim" /\ facets_queue # <<>>
    /\ Valid(PoppedMuls) = 1
    /\ facets_queue' = Rest
    /\ UNCHANGED <<inputs, label_vars, cat, output, output_facets, chosen, skipped, dropped,
                   build_idx, pc, ret>>

\* valid == 2: the children that close the first open ridge orbit
PopIncomplete ==
    /\ pc = "search" /\ entry = "faceting_subdim" /\ facets_queue # <<>>
    /\ Valid(PoppedMuls) = 2
    /\ facets_queue' =
            Rest \o ExtendIncomplete(cat.ones, Popped.facets, Popped.min_hp, PoppedMuls)
    /\ UNCHANGED <<inputs, label_vars, cat, output, output_facets, chosen, skipped, dropped,
                   build_idx, pc, ret>>

\* valid == 0: the combination is built and, unless the uniform filter skips
\* it, accepted; isogonal is the answer of element_types and split
PopValid ==
    /\ pc = "search" /\ entry = "faceting_subdim" /\ facets_queue # <<>>
    /\ Valid(PoppedMuls) = 0
    /\ LET new_facets == SplitFacets(cat.compound_facets, Popped.facets)
           ranks == BuildRanks(cat, vertex_map, new_facets)
       IN IF uniform /\ ~ is_dyadic(Ranks2(ranks))
          THEN /\ pc' = "panic"
               /\ UNCHANGED <<facets_queue, output, output_facets, chosen, skipped>>
          ELSE \E isogonal \in BOOLEAN :
               /\ IF uniform /\ ~ isogonal
                  THEN /\ skipped' = skipped + 1
                       /\ UNCHANGED <<output, output_facets, chosen>>
                  ELSE /\ output' = Append(output, [ranks |-> ranks, facets |-> new_facets])
                       /\ output_facets' = Append(output_facets, new_facets)
                       /\ chosen' = Append(chosen, Popped.facets)
                       /\ UNCHANGED skipped
               /\ IF CapReached(max_per_hyperplane, Len(output'))
                  THEN pc' = "sort" /\ facets_queue' = Rest
                  ELSE /\ pc' = pc
                       /\ facets_queue' =
                            Rest \o ExtendValid(cat.possible_facets, Popped.facets,
                                                Popped.min_hp, PoppedMuls)
    /\ UNCHANGED <<inputs, label_vars, cat, dropped, build_idx, ret>>

\* after the loop: the sorts, label_mixed_compounds and the return
Finish ==
    /\ entry = "faceting_subdim"
    /\ \/ pc = "sort"
       \/ pc = "search" /\ facets_queue = <<>>
    /\ output' = SortOutput(output)
    /\ output_facets' = SortLists(output_facets)
    /\ vec' = output_facets'
    /\ LET r == SubdimReturn(cat, output, output_facets)
       IN IF r.panic
          THEN pc' = "panic" /\ UNCHANGED <<ret, mixed_compounds>>
          ELSE /\ pc' = "done"
               /\ mixed_compounds' = r.compounds
               /\ ret' = [facetings |-> r.facetings, counts |-> r.counts,
                          ridges |-> r.ridges, compounds |-> r.compounds,
                          fissary |-> r.fissary]
    /\ UNCHANGED <<inputs, cat, facets_queue, chosen, skipped, dropped, build_idx,
                   output_idxs>>

\* Concrete::faceting, rank < 4: nothing is faceted
TopUnsupported ==
    /\ pc = "call" /\ entry = "faceting" /\ Unsupported(rank)
    /\ pc' = "done"
    /\ UNCHANGED <<inputs, label_vars, cat, facets_queue, output, output_facets, chosen, skipped,
                   dropped, build_idx, ret>>

\* Concrete::faceting, rank 4, up to the first pass of the search
TopEnumerate ==
    /\ pc = "call" /\ entry = "faceting" /\ ~ Unsupported(rank)
    /\ cat' = TopCatalogue(config, vertex_map, max_per_hyperplane)
    /\ IF cat'.panic
       THEN pc' = "panic" /\ facets_queue' = <<>>
       ELSE pc' = "search" /\ facets_queue' = InitialQueue(cat')
    /\ UNCHANGED <<inputs, label_vars, output, output_facets, chosen, skipped, dropped, build_idx,
                   ret>>

\* facets.len() == max_facets: no child is pushed
\* the test made one pair too late
NobleReachedLate(max_facets, len) == max_facets.some /\ len = max_facets.val + 1

\* "if let Some(max_facets) = noble { if facets.len() == max_facets"
NobleReached(max_facets, len) == max_facets.some /\ len = max_facets.val

NobleStop == NobleReached(noble, Len(Popped.facets))

TopPopExotic ==
    /\ pc = "search" /\ entry = "faceting" /\ facets_queue # <<>>
    /\ Valid(PoppedMuls) = 1
    /\ facets_queue' = Rest
    /\ UNCHANGED <<inputs, label_vars, cat, output, output_facets, chosen, skipped, dropped,
                   build_idx, pc, ret>>

TopPopIncomplete ==
    /\ pc = "search" /\ entry = "faceting" /\ facets_queue # <<>>
    /\ Valid(PoppedMuls) = 2
    /\ facets_queue' =
            IF NobleStop THEN Rest
            ELSE Rest \o ExtendIncomplete(cat.ones, Popped.facets, Popped.min_hp,
                                          PoppedMuls)
    /\ UNCHANGED <<inputs, label_vars, cat, output, output_facets, chosen, skipped, dropped,
                   build_idx, pc, ret>>

\* valid == 0: only the facet list is kept, the polytope is built later
TopPopValid ==
    /\ pc = "search" /\ entry = "faceting" /\ facets_queue # <<>>
    /\ Valid(PoppedMuls) = 0
    /\ output_facets' =
            Append(output_facets, SplitFacets(cat.compound_facets, Popped.facets))
    /\ chosen' = Append(chosen, Popped.facets)
    /\ facets_queue' =
            IF NobleStop \/ ~ include_compounds THEN Rest
            ELSE Rest \o ExtendValid(cat.possible_facets, Popped.facets, Popped.min_hp,
                                     PoppedMuls)
    /\ UNCHANGED <<inputs, label_vars, cat, output, skipped, dropped, build_idx, pc, ret>>

\* the lists filter_mixed_compounds keeps
Kept(lists, idxs) == [i \in 1 .. Len(idxs) |-> At(lists, idxs[i])]

\* after the search: the sort and, without include_compounds, the filter
TopSort ==
    /\ pc = "search" /\ entry = "faceting" /\ facets_queue = <<>>
    /\ LET sorted == SortLists(output_facets)
           kept == filter_mixed_compounds(sorted)
       IN IF include_compounds
          THEN pc' = "build" /\ output_facets' = sorted
          ELSE IF kept.panic
          THEN pc' = "panic" /\ output_facets' = sorted
          ELSE pc' = "build" /\ output_facets' = Kept(sorted, kept.out)
    /\ UNCHANGED <<inputs, label_vars, cat, facets_queue, output, chosen, skipped, dropped,
                   build_idx, ret>>

\* one pass of "for facets in output_facets" (save = true): the polytope is
\* pushed to output if its ranks are dyadic, and nothing is done otherwise
TopBuild ==
    /\ pc = "build" /\ build_idx < Len(output_facets)
    /\ LET facets == At(output_facets, build_idx)
           ranks == TopBuildRanks(cat, vertex_map, facets)
       IN IF is_dyadic(ranks)
          THEN /\ output' = Append(output, [ranks |-> ranks, facets |-> facets])
               /\ UNCHANGED dropped
          ELSE /\ dropped' = Append(dropped, facets)
               /\ UNCHANGED output
    /\ build_idx' = build_idx + 1
    /\ UNCHANGED <<inputs, label_vars, cat, facets_queue, output_facets, chosen, skipped, pc, ret>>

\* the end of the loop: output is returned
TopReturn ==
    /\ pc = "build" /\ build_idx = Len(output_facets)
    /\ pc' = "done"
    /\ UNCHANGED <<inputs, label_vars, cat, facets_queue, output, output_facets, chosen, skipped,
                   dropped, build_idx, ret>>

(***************************************************************************)
(* label_mixed_compounds called on its own                                 *)
(***************************************************************************)
\* the (h, f) pairs the lists are made of
LabelFacets == {<<k \div 2, k % 2>> : k \in Range0(MaxLabelFacets)}

RECURSIVE SortedLexOfSet(_)
SortedLexOfSet(S) ==
    IF S = {} THEN <<>>
    ELSE LET m == CHOOSE x \in S : \A y \in S : ~ LexLt(y, x)
         IN <<m>> \o SortedLexOfSet(S \ {m})

\* the sorted, duplicate-free, non-empty lists of pairs
LabelLists == {SortedLexOfSet(S) : S \in (SUBSET LabelFacets) \ {{}}}

RECURSIVE ListsOfSet(_)
ListsOfSet(S) ==
    IF S = {} THEN <<>>
    ELSE LET m == CHOOSE x \in S : TRUE IN <<m>> \o ListsOfSet(S \ {m})

\* the sorted lists of at most MaxLists lists, one of them possibly twice
LabelInputs ==
    {SortLists(ListsOfSet(S) \o d) :
        S \in {T \in SUBSET LabelLists : Cardinality(T) <= MaxLists},
        d \in {<<>>} \cup {<<l>> : l \in LabelLists}}

InitLabel ==
    /\ entry = "label_mixed_compounds"
    /\ rank = 3
    /\ config = Polygon(3)
    /\ vertex_map = <<Identity(3)>>
    /\ uniform = FALSE
    /\ max_per_hyperplane = None
    /\ noble = None
    /\ include_compounds = TRUE
    /\ cat = NoCatalogue
    /\ facets_queue = <<>>
    /\ output = <<>>
    /\ output_facets = <<>>
    /\ chosen = <<>>
    /\ skipped = 0
    /\ dropped = <<>>
    /\ build_idx = 0
    /\ pc = "call"
    /\ ret = EmptyResult
    /\ vec \in {v \in LabelInputs : Len(v) <= MaxLists}
    /\ mixed_compounds = NoMap
    /\ output_idxs = NotFiltered
    /\ NoGroup
    /\ NoSort

LabelCall ==
    /\ pc = "call" /\ entry = "label_mixed_compounds"
    /\ LET r == label_mixed_compounds(vec)
       IN IF r.panic
          THEN pc' = "panic" /\ UNCHANGED <<mixed_compounds, output_idxs>>
          ELSE /\ pc' = "done"
               /\ mixed_compounds' = r.out
               /\ output_idxs' = filter_mixed_compounds(vec)
    /\ UNCHANGED <<inputs, cat, facets_queue, output, output_facets, chosen, skipped,
                   dropped, build_idx, ret, vec>>

SpecLabel == InitLabel /\ [][LabelCall]_vars

(***************************************************************************)
(* GenIter, Cyclic and get_vertex_map called on their own                  *)
(***************************************************************************)
InitGroup ==
    /\ entry \in {"GenIter", "Cyclic", "get_vertex_map"}
    /\ rank = 3
    /\ config = Polygon(3)
    /\ vertex_map = <<>>
    /\ uniform = FALSE
    /\ max_per_hyperplane = None
    /\ noble = None
    /\ include_compounds = TRUE
    /\ cat = NoCatalogue
    /\ facets_queue = <<>>
    /\ output = <<>>
    /\ output_facets = <<>>
    /\ chosen = <<>>
    /\ skipped = 0
    /\ dropped = <<>>
    /\ build_idx = 0
    /\ pc = "call"
    /\ ret = EmptyResult
    /\ vec = <<>>
    /\ mixed_compounds = NoMap
    /\ output_idxs = NotFiltered
    /\ vertices \in (IF entry = "get_vertex_map" THEN VertexLists ELSE {<<>>})
    /\ group \in (IF entry = "get_vertex_map" THEN SymmetryGroups(vertices) ELSE {<<>>})
    /\ generators \in (IF entry = "GenIter" THEN GeneratorLists ELSE {<<>>})
    /\ elements = <<>>
    /\ el_idx = 0
    /\ gen_idx = 0
    /\ generator \in (IF entry = "Cyclic" THEN SignedPermutations ELSE {IdentityMatrix})
    /\ cur = (IF entry = "Cyclic" THEN Item(generator) ELSE NoItem)
    /\ yielded = <<>>
    /\ nones = 0
    /\ NoSort

faceting_vars == <<cat, facets_queue, output, output_facets, chosen, skipped, dropped,
                   build_idx, ret, label_vars, sort_vars, stabilizer_vars,
                   fissary_vars>>

\* one call of GenIter::next
GenNext ==
    /\ pc = "call" /\ entry = "GenIter" /\ nones < MaxCalls
    /\ LET r == GenIterNext([generators |-> generators, elements |-> elements,
                             el_idx |-> el_idx, gen_idx |-> gen_idx])
       IN  /\ elements' = r.it.elements
           /\ el_idx' = r.it.el_idx
           /\ gen_idx' = r.it.gen_idx
           /\ IF r.kind = "New"
              THEN yielded' = Append(yielded, r.el) /\ nones' = nones
              ELSE yielded' = yielded /\ nones' = nones + 1
    /\ UNCHANGED <<call, vertex_map, vertices, group, generators, generator, cur, pc,
                   faceting_vars>>

\* one call of Cyclic::next
CyclicCall ==
    /\ pc = "call" /\ entry = "Cyclic" /\ nones < MaxCalls
    /\ LET r == CyclicNext(generator, cur)
       IN  /\ cur' = r.cur
           /\ IF r.res.some
              THEN yielded' = Append(yielded, r.res.val) /\ nones' = nones
              ELSE yielded' = yielded /\ nones' = nones + 1
    /\ UNCHANGED <<call, vertex_map, vertices, group, generators, elements, el_idx,
                   gen_idx, generator, pc, faceting_vars>>

\* get_vertex_map from its call to its return
GetVertexMap ==
    /\ pc = "call" /\ entry = "get_vertex_map"
    /\ LET r == get_vertex_map(vertices, group)
       IN  /\ vertex_map' = r.vertex_map
           /\ pc' = IF r.panic THEN "panic" ELSE "done"
    /\ UNCHANGED <<call, group_vars, faceting_vars>>

NextGroup == GenNext \/ CyclicCall \/ GetVertexMap

SpecGroup == InitGroup /\ [][NextGroup]_vars

(***************************************************************************)
(* Ranks::element_sort_strong called on its own                            *)
(***************************************************************************)
InitSort ==
    /\ entry = "element_sort_strong"
    /\ rank = 3
    /\ config = Polygon(3)
    /\ vertex_map = <<>>
    /\ uniform = FALSE
    /\ max_per_hyperplane = None
    /\ noble = None
    /\ include_compounds = TRUE
    /\ cat = NoCatalogue
    /\ facets_queue = <<>>
    /\ output = <<>>
    /\ output_facets = <<>>
    /\ chosen = <<>>
    /\ skipped = 0
    /\ dropped = <<>>
    /\ build_idx = 0
    /\ pc = "call"
    /\ ret = EmptyResult
    /\ vec = <<>>
    /\ mixed_compounds = NoMap
    /\ output_idxs = NotFiltered
    /\ NoGroup
    /\ self \in BaseRanks
    /\ relisted \in Relistings(self)
    /\ sorted_ranks = NoRanks
    /\ hp_v = <<>> /\ new_stabilizer = <<>>
    /\ mark_fissary = FALSE /\ all_fissary_facets = <<>>

\* element_sort_strong on self, on relisted, and on the result of that
SortCall ==
    /\ pc = "call" /\ entry = "element_sort_strong"
    /\ sorted_ranks' = [base |-> element_sort_strong(self),
                        once |-> element_sort_strong(relisted),
                        twice |-> element_sort_strong(element_sort_strong(relisted))]
    /\ pc' = "done"
    /\ UNCHANGED <<call, vertex_map, group_vars, self, relisted, cat, facets_queue,
                   output, output_facets, chosen, skipped, dropped, build_idx, ret,
                   label_vars, stabilizer_vars, fissary_vars>>

SpecSort == InitSort /\ [][SortCall]_vars

(***************************************************************************)
(* The induced stabilizer on its own: the loop body of lines 556-584 for   *)
(* one hyperplane of a configuration, the rows of the parent table in any  *)
(* order                                                                   *)
(***************************************************************************)
\* the rows of t from the k-th on, then those before it
Rotate(t, k) == [i \in 1 .. Len(t) |-> t[((i - 1 + k) % Len(t)) + 1]]

RowOrders(t) ==
    {Rotate(t, k) : k \in Range0(Len(t))} \cup {[i \in 1 .. Len(t) |-> t[Len(t) + 1 - i]]}

InitStabilizer ==
    /\ entry = "stabilizer"
    /\ rank \in {3, 4}
    /\ config \in Configs(rank)
    /\ vertex_map \in UNION {RowOrders(t) : t \in Tables(config)}
    /\ uniform = FALSE
    /\ max_per_hyperplane = None
    /\ noble = None
    /\ include_compounds = TRUE
    /\ cat = NoCatalogue
    /\ facets_queue = <<>>
    /\ output = <<>>
    /\ output_facets = <<>>
    /\ chosen = <<>>
    /\ skipped = 0
    /\ dropped = <<>>
    /\ build_idx = 0
    /\ pc = "call"
    /\ ret = EmptyResult
    /\ vec = <<>>
    /\ mixed_compounds = NoMap
    /\ output_idxs = NotFiltered
    /\ NoGroup
    /\ self = NoRanks /\ relisted = NoRanks /\ sorted_ranks = NoRanks
    /\ hp_v \in {SetToSortedSeq(l) : l \in IF rank = 3 THEN config.lines ELSE config.planes}
    /\ new_stabilizer = <<>>
    /\ mark_fissary = FALSE /\ all_fissary_facets = <<>>

\* stabilizer, map_back and new_stabilizer; stabilizer[0] is read: a panic
\* when no row keeps the hyperplane
StabilizerCall ==
    /\ pc = "call" /\ entry = "stabilizer"
    /\ IF Stabilizer(vertex_map, hp_v) = <<>>
       THEN pc' = "panic" /\ UNCHANGED new_stabilizer
       ELSE /\ new_stabilizer' = NewStabilizer(Stabilizer(vertex_map, hp_v))
            /\ pc' = "done"
    /\ UNCHANGED <<call, vertex_map, group_vars, sort_vars, hp_v, cat, facets_queue,
                   output, output_facets, chosen, skipped, dropped, build_idx, ret,
                   label_vars, fissary_vars>>

SpecStabilizer == InitStabilizer /\ [][StabilizerCall]_vars

(***************************************************************************)
(* The return of faceting_subdim on its own (lines 1067-1070):             *)
(* label_mixed_compounds, then mark_fissaries when it is asked for         *)
(***************************************************************************)
\* hyperplane orbits the pairs of LabelFacets lie in
FissaryHps == (MaxLabelFacets + 1) \div 2

\* all_fissary_facets: one set of facet indices per hyperplane orbit
FissaryMarks ==
    {[h \in 1 .. FissaryHps |-> F] : F \in {{}, {1}}}
        \cup {[h \in 1 .. FissaryHps |-> IF h = 1 THEN {0} ELSE {}]}

InitFissary ==
    /\ entry = "mark_fissaries"
    /\ rank \in {3, 4}
    /\ config = Polygon(3)
    /\ vertex_map = <<Identity(3)>>
    /\ uniform = FALSE
    /\ max_per_hyperplane = None
    /\ noble = None
    /\ include_compounds = TRUE
    /\ cat = NoCatalogue
    /\ facets_queue = <<>>
    /\ output = <<>>
    /\ output_facets = <<>>
    /\ chosen = <<>>
    /\ skipped = 0
    /\ dropped = <<>>
    /\ build_idx = 0
    /\ pc = "call"
    /\ ret = EmptyResult
    /\ vec \in {v \in LabelInputs : Len(v) < MaxLists}
    /\ mixed_compounds = NoMap
    /\ output_idxs = NotFiltered
    /\ NoGroup
    /\ self = NoRanks /\ relisted = NoRanks /\ sorted_ranks = NoRanks
    /\ hp_v = <<>> /\ new_stabilizer = <<>>
    /\ mark_fissary \in BOOLEAN
    /\ all_fissary_facets \in FissaryMarks

FissaryCall ==
    /\ pc = "call" /\ entry = "mark_fissaries"
    /\ LET r == label_mixed_compounds(vec)
       IN IF r.panic
          THEN pc' = "panic" /\ UNCHANGED <<ret, mixed_compounds>>
          ELSE /\ pc' = "done"
               /\ mixed_compounds' = r.out
               /\ \E untangles \in {{}, {0}, Range0(Len(vec))} :
                    ret' = [EmptyResult EXCEPT
                              !.compounds = r.out,
                              !.fissary =
                                  IF mark_fissary /\ rank > 3
                                  THEN mark_fissaries(vec, all_fissary_facets, r.out,
                                                      untangles)
                                  ELSE {}]
    /\ UNCHANGED <<inputs, cat, facets_queue, output, output_facets, chosen, skipped,
                   dropped, build_idx, vec, output_idxs>>

SpecFissary == InitFissary /\ [][FissaryCall]_vars

Next ==
    \/ DyadCall \/ Enumerate \/ PopExotic \/ PopIncomplete \/ PopValid \/ Finish
    \/ TopUnsupported \/ TopEnumerate \/ TopPopExotic \/ TopPopIncomplete
    \/ TopPopValid \/ TopSort \/ TopBuild \/ TopReturn

Spec == Init /\ [][Next]_vars

\* the call has neither returned nor aborted: some step can be taken
Running == pc \notin {"done", "panic"}

\* the program runs on, a step that can be taken is taken: the weak fairness
\* WF_vars(Next), with ENABLED <<Next>>_vars written as the state predicate
\* Running it is equal to, and <<Next>>_vars as <<TRUE>>_vars, which every
\* step of [][Next]_vars that changes the state is
Fairness == []<>(~ Running) \/ []<><<TRUE>>_vars

SpecLive == Spec /\ Fairness

(***************************************************************************)
(* Properties                                                              *)
(***************************************************************************)
\* the table is a group of permutations of the vertices
IsGroupTable == IsGroup(config.n, SeqToSet(vertex_map))

\* the search of faceting_subdim or of Concrete::faceting has a catalogue
Faceted == ~ cat.panic

\* the (hp, f) pairs of the catalogue
CandidatePairs ==
    UNION {{<<hp, f>> : f \in Range0(Len(At(cat.possible_facets, hp)))} :
                hp \in Range0(Len(cat.possible_facets))}

\* the local ridges (rank, index) of candidate f of hyperplane orbit hp
LocalRidges(pr) == At(At(cat.possible_facets, pr[1]), pr[2]).facets

\* the ridge orbit g of a local ridge of hyperplane orbit hp
OrbitOfRidge(hp, ridge_idx) ==
    At(At(At(cat.ridge_idx_orbits, hp), ridge_idx[1]), ridge_idx[2])

\* a candidate touches the ridge orbit g
Touches(pr, g) ==
    \E k \in 1 .. Len(LocalRidges(pr)) : OrbitOfRidge(pr[1], LocalRidges(pr)[k]) = g

\* what the candidate adds to the ridge orbit g: ridge_muls[hp][f][g] once for
\* each of its local ridges of that orbit
Contribution(pr, g) ==
    Cardinality({k \in 1 .. Len(LocalRidges(pr)) :
                    OrbitOfRidge(pr[1], LocalRidges(pr)[k]) = g})
        * At(At(cat.ridge_muls, pr[1]), pr[2])[g]

RECURSIVE OrbitSum(_, _)
OrbitSum(facets, g) ==
    IF facets = <<>> THEN 0 ELSE Contribution(facets[1], g) + OrbitSum(Tail(facets), g)

RidgeOrbitIds == Range0(Len(cat.ridge_counts))

\* what the search tests before it emits a combination: for every ridge orbit
\* g, the contributions of the chosen (h, f) pairs to g sum to 0 or 2
C1_SumsZeroOrTwo ==
    \A i \in 1 .. Len(chosen) : \A g \in RidgeOrbitIds :
        OrbitSum(chosen[i], g) \in {0, 2}

\* C1: for every combination the search emits and every ridge orbit g, the
\* contributions of the chosen (h, f) pairs to g sum to exactly 0 or exactly 2,
\* and to exactly 2 when some chosen facet touches g
C1_ClosedRidges ==
    \A i \in 1 .. Len(chosen) : \A g \in RidgeOrbitIds :
        /\ OrbitSum(chosen[i], g) \in {0, 2}
        /\ (\E k \in 1 .. Len(chosen[i]) : Touches(chosen[i][k], g))
                => OrbitSum(chosen[i], g) = 2

\* C2: the accepted combinations hold no two equal facet lists and no two
\* lists that are permutations of each other
C2_NoDuplicates ==
    /\ \A i, j \in 1 .. Len(output_facets) :
        i # j => /\ output_facets[i] # output_facets[j]
                 /\ SeqToSet(output_facets[i]) # SeqToSet(output_facets[j])
    /\ \A i, j \in 1 .. Len(chosen) :
        i # j => /\ chosen[i] # chosen[j]
                 /\ SeqToSet(chosen[i]) # SeqToSet(chosen[j])

C2_Witness ==
    /\ pc = "done" /\ entry = "faceting_subdim" /\ rank = 3
    /\ Len(output_facets) >= 3
    /\ \E i, j \in 1 .. Len(chosen) : i # j /\ Len(chosen[i]) >= 2 /\ Len(chosen[j]) >= 2

\* faceting_subdim has returned from a call at rank 2 with exactly 2 points
DyadReturned ==
    pc = "done" /\ entry = "faceting_subdim" /\ rank = 2 /\ config.n = 2

\* some row of the table maps local vertex 0 to local vertex 1
SwapsEnds == \E i \in 1 .. Len(vertex_map) : vertex_map[i][1] = 1

\* C3: at rank 2 with exactly 2 points faceting_subdim returns exactly one
\* faceting, the dyad: with facet list [(0,0),(1,0)] and counts [1,1] if no row
\* maps vertex 0 to vertex 1 (snub), with facet list [(0,0)] and counts [2] if
\* some row does (non-snub)
C3_DyadFaceting ==
    DyadReturned =>
        /\ Len(ret.facetings) = 1
        /\ ret.facetings[1].ranks = DyadRanks
        /\ ~ SwapsEnds => /\ ret.facetings[1].facets = << <<0, 0>>, <<1, 0>> >>
                          /\ ret.counts = <<1, 1>>
        /\ SwapsEnds => /\ ret.facetings[1].facets = << <<0, 0>> >>
                        /\ ret.counts = <<2>>

C3_Witness ==
    DyadReturned /\ SwapsEnds /\ vertex_map[1] = <<0, 1>> /\ ret.counts = <<2>>

\* C4 as stated: the identity-only table [[0,1]] gives the non-snub dyad (one
\* hyperplane orbit of multiplicity 2) and the swap table [[0,1],[1,0]] the
\* snub one (two hyperplane orbits of multiplicity 1)
C4_AsStated ==
    DyadReturned =>
        /\ vertex_map = << <<0, 1>> >> => Len(ret.facetings) = 1 /\ ret.counts = <<2>>
        /\ vertex_map = << <<0, 1>>, <<1, 0>> >>
                => Len(ret.facetings) = 1 /\ ret.counts = <<1, 1>>

\* C4 amended: the identity-only table [[0,1]] gives the snub dyad (two
\* hyperplane orbits of multiplicity 1, facet list [(0,0),(1,0)]) and the swap
\* table [[0,1],[1,0]] the non-snub one (one hyperplane orbit of multiplicity
\* 2, facet list [(0,0)])
C4_Scenarios ==
    DyadReturned =>
        /\ vertex_map = << <<0, 1>> >>
                => /\ Len(ret.facetings) = 1
                   /\ ret.counts = <<1, 1>>
                   /\ ret.facetings[1].facets = << <<0, 0>>, <<1, 0>> >>
        /\ vertex_map = << <<0, 1>>, <<1, 0>> >>
                => /\ Len(ret.facetings) = 1
                   /\ ret.counts = <<2>>
                   /\ ret.facetings[1].facets = << <<0, 0>> >>

C4_Witness == DyadReturned /\ vertex_map = << <<0, 1>> >> /\ ret.counts = <<1, 1>>

\* f_counts[h] * ff_counts[h][local ridge] is a multiple of ridge_counts[g] for
\* the local ridge of a candidate
Divides(pr, ridge_idx) ==
    (At(cat.f_counts, pr[1]) * At(At(cat.ff_counts, pr[1]), ridge_idx[1]))
        % At(cat.ridge_counts, OrbitOfRidge(pr[1], ridge_idx)) = 0

AllIntegral ==
    \A pr \in CandidatePairs : \A k \in 1 .. Len(LocalRidges(pr)) :
        Divides(pr, LocalRidges(pr)[k])

\* C5: when some ridge multiplicity is not an integer the computation aborts:
\* it never goes on to the search with the truncated multiplicity
C5_NonIntegerAborts == (Faceted /\ ~ AllIntegral) => pc = "panic"

\* C6: when the ranks assembled from an accepted combination fail the dyadic
\* check the computation aborts: no combination is dropped with the run going
\* on
C6_NonDyadicAborts == dropped # <<>> => pc = "panic"

\* C7: a run that facets with a table that is not a group never returns
\* normally
C7_NonGroupAborts ==
    (~ IsGroupTable /\ (rank = 4 \/ (entry = "faceting_subdim" /\ rank = 3)))
        => pc # "done"

\* C8: for a table that is a group, f_counts[h] * ff_counts[h][local ridge] is
\* an exact multiple of ridge_counts[g] for every candidate f of every
\* hyperplane orbit h and every ridge orbit g that f touches
C8_Divisibility == (IsGroupTable /\ Faceted) => AllIntegral

C8_Witness ==
    /\ IsGroupTable /\ Faceted /\ rank = 4
    /\ \E pr \in CandidatePairs : \E k \in 1 .. Len(LocalRidges(pr)) :
            /\ At(cat.ridge_counts, OrbitOfRidge(pr[1], LocalRidges(pr)[k])) > 2
            /\ At(cat.f_counts, pr[1]) > 1

\* label_mixed_compounds has returned, or aborted, in a call on its own
LabelReturned == entry = "label_mixed_compounds" /\ pc = "done"
LabelAborted == entry = "label_mixed_compounds" /\ pc = "panic"

ListIds == Range0(Len(vec))

\* vec[b] is a strictly shorter sub-list of vec[a] that holds vec[a]'s first pair
SubList(a, b) ==
    /\ Len(At(vec, b)) < Len(At(vec, a))
    /\ SeqToSet(At(vec, b)) \subseteq SeqToSet(At(vec, a))
    /\ At(vec, a)[1] \in SeqToSet(At(vec, b))

\* the set difference vec[a] minus vec[b] is one of the lists
DifferenceAccepted(a, b) ==
    \E c \in ListIds : SeqToSet(At(vec, c)) = SeqToSet(At(vec, a)) \ SeqToSet(At(vec, b))

\* the sub-list of vec[a] of lowest index
FirstSubList(a) == CHOOSE b \in ListIds : SubList(a, b) /\ \A d \in ListIds : SubList(a, d) => b <= d

\* C9 as stated: label_mixed_compounds aborts whenever some list a has a
\* strictly shorter sub-list b holding a's first pair whose difference a minus b
\* is not one of the lists: it never returns then
C9_AsStated ==
    LabelReturned =>
        \A a \in ListIds : \A b \in ListIds : SubList(a, b) => DifferenceAccepted(a, b)

\* C9 amended: label_mixed_compounds aborts exactly when, for some list a, the
\* sub-list of a of lowest index (strictly shorter, holding a's first pair) has
\* a difference a minus b that is not one of the lists
C9_FirstSubList ==
    (LabelReturned \/ LabelAborted) =>
        (LabelAborted <=>
            \E a \in ListIds :
                /\ \E b \in ListIds : SubList(a, b)
                /\ ~ DifferenceAccepted(a, FirstSubList(a)))

C9_Witness ==
    /\ LabelAborted
    /\ \E a \in ListIds : \E b \in ListIds : SubList(a, b) /\ b # FirstSubList(a)

\* C10: for a sorted list of sorted duplicate-free lists, a is a key of the
\* map returned if and only if some strictly shorter vec[b] is a sub-list of
\* vec[a] holding vec[a]'s first pair; and for every entry a -> (b, c), vec[b]
\* and vec[c] are disjoint, their union is vec[a], and a, b, c are three
\* different indices with b < c
C10_CompoundMap ==
    LabelReturned =>
        /\ DOMAIN mixed_compounds \subseteq ListIds
        /\ \A a \in ListIds :
            /\ a \in DOMAIN mixed_compounds <=> \E b \in ListIds : SubList(a, b)
            /\ a \in DOMAIN mixed_compounds =>
                LET b == mixed_compounds[a][1]
                    c == mixed_compounds[a][2]
                IN /\ b \in ListIds /\ c \in ListIds
                   /\ SeqToSet(At(vec, b)) \cap SeqToSet(At(vec, c)) = {}
                   /\ SeqToSet(At(vec, b)) \cup SeqToSet(At(vec, c)) = SeqToSet(At(vec, a))
                   /\ a # b /\ a # c /\ b # c /\ b < c

C10_Witness ==
    /\ LabelReturned
    /\ Cardinality(DOMAIN mixed_compounds) >= 2
    /\ \E a \in DOMAIN mixed_compounds : mixed_compounds[a][1] > 0

\* the list is in ascending (h, f) order
Ascending(list) == \A k \in 1 .. Len(list) - 1 : ~ LexLt(list[k + 1], list[k])

\* the pair is one the compound map of its hyperplane orbit decomposes
IsCompound(pr) == pr[2] \in DOMAIN At(cat.compound_facets, pr[1])

\* C11: every facet list the search emits is fully split and sorted: it is in
\* ascending (h, f) order, holds no (h, f) with f a key of the compound map of
\* hyperplane orbit h, and splitting it again leaves it unchanged
C11_SplitAndSorted ==
    \A i \in 1 .. Len(output_facets) :
        /\ Ascending(output_facets[i])
        /\ \A k \in 1 .. Len(output_facets[i]) : ~ IsCompound(output_facets[i][k])
        /\ SplitFacets(cat.compound_facets, output_facets[i]) = output_facets[i]

C11_Witness ==
    /\ pc = "search" /\ entry = "faceting"
    /\ \E i \in 1 .. Len(chosen) :
            /\ \E k \in 1 .. Len(chosen[i]) : IsCompound(chosen[i][k])
            /\ Len(output_facets[i]) > Len(chosen[i])

\* nothing has been enumerated and no search step made
NothingEnumerated ==
    /\ cat = NoCatalogue /\ facets_queue = <<>> /\ output = <<>>
    /\ output_facets = <<>> /\ chosen = <<>> /\ skipped = 0

\* C12: faceting_subdim called at rank 2 with more than 2 points returns the
\* empty result (no facetings, no orbit counts, no ridges, an empty compound
\* map, an empty fissary set) whatever the table, without enumerating anything
C12_TetradsEmpty ==
    (entry = "faceting_subdim" /\ rank = 2 /\ config.n > 2) =>
        /\ NothingEnumerated
        /\ pc \in {"call", "done"}
        /\ pc = "done" =>
            /\ ret.facetings = <<>> /\ ret.counts = <<>> /\ ret.ridges = <<>>
            /\ DOMAIN ret.compounds = {} /\ ret.fissary = {}

C12_Witness ==
    /\ entry = "faceting_subdim" /\ rank = 2 /\ config.n = 3 /\ pc = "done"
    /\ Len(vertex_map) = 2 /\ ret.facetings = <<>>

\* C13: Concrete::faceting on a polytope of rank below 4 (the nullitope being
\* rank 0) returns an empty list at once: nothing is enumerated and no search
\* step is made
C13_LowRankEmpty ==
    (entry = "faceting" /\ rank < 4) =>
        /\ NothingEnumerated
        /\ dropped = <<>> /\ build_idx = 0
        /\ pc \in {"call", "done"}

C13_Witness == entry = "faceting" /\ rank = 3 /\ config.n = 4 /\ pc = "done" /\ output = <<>>

\* the vertex orbits the engine computes for the call
CallVertexOrbits == VertexOrbits(config.n, vertex_map).vertex_orbits

\* C14: for a table that is a group of permutations the vertex-orbit index is
\* invariant under the table, orbit_of_vertex[v] = orbit_of_vertex[row[v]] for
\* every vertex v and every row, and every vertex belongs to exactly one
\* vertex orbit
C14_OrbitInvariant ==
    (IsGroupTable /\ Faceted) =>
        /\ cat.orbit_of_vertex = VertexOrbits(config.n, vertex_map).orbit_of_vertex
        /\ \A v \in Range0(config.n) : \A i \in 1 .. Len(vertex_map) :
                cat.orbit_of_vertex[v] = cat.orbit_of_vertex[At(vertex_map[i], v)]
        /\ \A v \in Range0(config.n) :
                /\ Cardinality({<<o, k>> \in (1 .. Len(CallVertexOrbits)) \X (1 .. config.n) :
                                    /\ k <= Len(CallVertexOrbits[o])
                                    /\ CallVertexOrbits[o][k] = v}) = 1
                /\ Contains(At(CallVertexOrbits, cat.orbit_of_vertex[v]), v)

C14_Witness ==
    /\ IsGroupTable /\ Faceted /\ rank = 4 /\ config.n = 7
    /\ Len(CallVertexOrbits) = 3

\* get_vertex_map has returned
VertexMapReturned == entry = "get_vertex_map" /\ pc = "done"

\* the row is a permutation of 0 .. n - 1
IsPermutationRow(row, n) ==
    Len(row) = n /\ SeqToSet(row) = Range0(n)

\* C15: get_vertex_map returns, for each element g of the group, a row that
\* is a permutation of 0 .. n_vertices - 1 and whose entry v is the index of
\* the vertex g maps vertex v to, v being the index in the vertex list as it
\* is stored.
C15_EntryIsImage ==
    VertexMapReturned =>
        /\ Len(vertex_map) = Len(group)
        /\ \A g \in 1 .. Len(group) :
            /\ IsPermutationRow(vertex_map[g], Len(vertices))
            /\ \A v \in Range0(Len(vertices)) :
                At(vertices, At(vertex_map[g], v)) = MatVec(group[g], At(vertices, v))

\* the group the generators generate: the least set holding the identity and
\* closed under the product with a generator
RECURSIVE MatrixClosure(_, _)
MatrixClosure(gens, S) ==
    LET T == S \cup {MatMul(a, b) : a \in S, b \in gens}
    IN  IF T = S THEN S ELSE MatrixClosure(gens, T)

Generated == MatrixClosure(SeqToSet(generators), {IdentityMatrix})

NoRepeats(s) == \A i, j \in 1 .. Len(s) : s[i] = s[j] => i = j

\* C16: for a non-empty list of generators of a finite group G, GenIter
\* yields the identity first, then the other elements of G, none of them
\* twice, and once it has returned None it yields nothing more: by then it
\* has yielded every element of G, as many items as the order of G.
C16_GenIterEnumerates ==
    (entry = "GenIter" /\ generators # <<>>) =>
        /\ yielded # <<>> => yielded[1] = IdentityMatrix
        /\ NoRepeats(yielded)
        /\ SeqToSet(yielded) \subseteq Generated
        /\ yielded = elements
        /\ nones > 0 =>
            /\ SeqToSet(yielded) = Generated
            /\ Len(yielded) = Cardinality(Generated)

\* two generators that generate all eight signed permutations, enumerated
\* to the end and asked again
C16_Witness ==
    /\ entry = "GenIter" /\ Len(generators) = MaxGenerators
    /\ nones = MaxCalls
    /\ Len(yielded) = Cardinality(SignedPermutations)

RECURSIVE Power(_, _)
Power(g, k) == IF k = 1 THEN g ELSE MatMul(Power(g, k - 1), g)

\* the order of g: the least n with g^n the identity
Order(g) ==
    CHOOSE n \in 1 .. Cardinality(SignedPermutations) :
        /\ Power(g, n) = IdentityMatrix
        /\ \A m \in 1 .. n - 1 : Power(g, m) # IdentityMatrix

Powers(g) == [k \in 1 .. Order(g) |-> Power(g, k)]

\* C17: Cyclic::new(g), g of order n, yields g, g^2, ..., g^n in that order,
\* the identity g^n last and each element once, and None from then on.
C17_CyclicPowers ==
    entry = "Cyclic" =>
        /\ Len(yielded) <= Order(generator)
        /\ yielded = SubSeq(Powers(generator), 1, Len(yielded))
        /\ nones > 0 => yielded = Powers(generator) /\ ~ cur.some
        /\ nones = 0 => (cur.some <=> Len(yielded) < Order(generator))
        /\ NoRepeats(yielded)

\* a generator of order 4 run through its cycle and asked again
C17_Witness ==
    /\ entry = "Cyclic"
    /\ nones = MaxCalls
    /\ Len(yielded) = 4
    /\ yielded[4] = IdentityMatrix

\* a pass of the search loop is about to pop a combination
Popping == pc = "search" /\ facets_queue # <<>>

\* the stack below the popped combination is left as it is
RestKept ==
    /\ Len(facets_queue') >= Len(Rest)
    /\ SubSeq(facets_queue', 1, Len(Rest)) = Rest

\* the children the pass pushes
Pushed == {facets_queue'[i] : i \in Len(Rest) + 1 .. Len(facets_queue')}

\* the pass emits nothing
NothingEmitted ==
    output' = output /\ output_facets' = output_facets /\ chosen' = chosen

\* the hyperplane orbits of all the pairs of a combination
AllHps(facets) == {facets[k][1] : k \in 1 .. Len(facets)}

\* the lowest-indexed ridge orbit whose running multiplicity is 1
FirstOpen(muls) ==
    CHOOSE g \in 1 .. Len(muls) : muls[g] = 1 /\ \A j \in 1 .. g - 1 : muls[j] # 1

\* the pairs of the multiplicity-1 list of that ridge orbit whose hyperplane
\* orbit the parent has not used and that is not below the parent's minimum
ClosingPairs ==
    {p \in SeqToSet(cat.ones[FirstOpen(PoppedMuls)]) :
        p[1] \notin AllHps(Popped.facets) /\ p[1] >= Popped.min_hp}

\* the parent extended by each of these pairs, the minimum kept
ClosingChildren ==
    {[facets |-> Append(Popped.facets, p), min_hp |-> Popped.min_hp,
      cached_ridge_muls |-> PoppedMuls] : p \in ClosingPairs}

\* C18 as stated: a popped combination classified incomplete is never
\* emitted, and its children are exactly the parent extended by one pair of
\* the multiplicity-1 list of the lowest-indexed ridge orbit whose running
\* multiplicity is 1, the pairs being those whose hyperplane orbit the parent
\* has not used and is not below the parent's minimum; every child keeps the
\* parent's minimum
C18_AsStated ==
    [][(Popping /\ Valid(PoppedMuls) = 2) =>
            NothingEmitted /\ RestKept /\ Pushed = ClosingChildren]_vars

\* C18 amended: the same, except that Concrete::faceting in noble mode pushes
\* no child at all for a combination that already has the noble number of
\* facets
C18_IncompleteChildren ==
    [][(Popping /\ Valid(PoppedMuls) = 2) =>
            /\ NothingEmitted /\ RestKept
            /\ Pushed = IF entry = "faceting" /\ noble.some
                            /\ Len(Popped.facets) = noble.val
                         THEN {} ELSE ClosingChildren]_vars

\* the multiplicities cached with a combination on the stack are those of its
\* parent: a child of an incomplete parent, with a minimum that is not its
\* own hyperplane orbit, and at least two pairs before it
C18_Witness ==
    /\ Popping /\ entry = "faceting"
    /\ \E i \in 1 .. Len(facets_queue) :
            /\ Valid(facets_queue[i].cached_ridge_muls) = 2
            /\ Len(facets_queue[i].facets) >= 3
            /\ facets_queue[i].min_hp < Last(facets_queue[i].facets)[1]

\* the pairs of every hyperplane orbit the parent has not used and that is
\* not below the parent's minimum, with every facet candidate of it
FreePairs ==
    {p \in CandidatePairs : p[1] \notin AllHps(Popped.facets) /\ p[1] >= Popped.min_hp}

\* the pass does not extend a valid combination: the cap max_per_hyperplane is
\* reached or the run aborts (faceting_subdim), the noble number of facets is
\* reached or compounds are not wanted (Concrete::faceting)
Suppressed ==
    IF entry = "faceting"
    THEN (noble.some /\ Len(Popped.facets) = noble.val) \/ ~ include_compounds
    ELSE pc' # "search"

\* C19: when a popped combination is classified valid and extension is not
\* suppressed, the search pushes exactly one child per pair (h', f'), for
\* every hyperplane orbit h' that the combination has not used and whose
\* index is at least the branch's minimum and every facet candidate f' of h',
\* and no other child
C19_ValidChildren ==
    [][(Popping /\ Valid(PoppedMuls) = 0 /\ ~ Suppressed) =>
            /\ RestKept
            /\ {e.facets : e \in Pushed} = {Append(Popped.facets, p) : p \in FreePairs}
            /\ Len(facets_queue') = Len(Rest) + Cardinality(FreePairs)]_vars

\* a combination on the stack that is the child of a valid parent with two
\* pairs or more
C19_Witness ==
    /\ Popping
    /\ \E i \in 1 .. Len(facets_queue) :
            /\ Valid(facets_queue[i].cached_ridge_muls) = 0
            /\ Len(facets_queue[i].facets) >= 3

\* the running multiplicities of a combination, from the first pair on
RECURSIVE MulsOf(_)
MulsOf(facets) ==
    IF facets = <<>> THEN [g \in 1 .. Len(cat.ridge_counts) |-> 0]
    ELSE NewRidgeMuls(cat, facets, MulsOf(SubSeq(facets, 1, Len(facets) - 1)))

Prefix(facets, k) == SubSeq(facets, 1, k)

\* the smallest hyperplane orbit index among the pairs of a combination
MinHp(facets) == CHOOSE h \in AllHps(facets) : \A g \in AllHps(facets) : h <= g

\* C20 as stated: for every partial combination on the search stack the
\* stored minimum-hyperplane value equals the smallest hyperplane orbit index
\* among the pairs chosen so far in that combination
C20_AsStated ==
    \A i \in 1 .. Len(facets_queue) :
        facets_queue[i].min_hp = MinHp(facets_queue[i].facets)

\* pair k began the current run of the combination: it is the first pair or
\* the combination before it is valid, and no combination from it on, short
\* of the whole, is valid
BeganRun(facets, k) ==
    /\ k = 1 \/ Valid(MulsOf(Prefix(facets, k - 1))) = 0
    /\ \A j \in k .. Len(facets) - 1 : Valid(MulsOf(Prefix(facets, j))) = 2

\* C20 amended: for every partial combination on the search stack the stored
\* minimum-hyperplane value is the hyperplane orbit index of the pair that
\* began the combination's current run, the first pair or the pair added when
\* a valid combination was last extended; every pair chosen after that pair
\* has a larger hyperplane orbit index, and no pair has a smaller one unless
\* a valid combination was extended on the way
C20_RunMinimum ==
    \A i \in 1 .. Len(facets_queue) :
        LET facets == facets_queue[i].facets
            min_hp == facets_queue[i].min_hp
        IN  /\ facets_queue[i].cached_ridge_muls = MulsOf(Prefix(facets, Len(facets) - 1))
            /\ \E k \in 1 .. Len(facets) :
                /\ facets[k][1] = min_hp
                /\ \A j \in k + 1 .. Len(facets) : facets[j][1] > min_hp
                /\ BeganRun(facets, k)
                /\ k = 1 => min_hp = MinHp(facets)

\* a combination on the stack whose stored value is neither its first pair's
\* hyperplane orbit nor its last pair's
C20_Witness ==
    \E i \in 1 .. Len(facets_queue) :
        /\ facets_queue[i].min_hp # facets_queue[i].facets[1][1]
        /\ facets_queue[i].min_hp # Last(facets_queue[i].facets)[1]

\* no partial combination on the stack and no accepted combination has more
\* pairs than there are hyperplane orbits
WithinOrbits ==
    /\ \A i \in 1 .. Len(facets_queue) :
            Len(facets_queue[i].facets) <= Len(cat.possible_facets)
    /\ \A i \in 1 .. Len(chosen) : Len(chosen[i]) <= Len(cat.possible_facets)

\* the search loop has been left: the stack is empty or the cap has stopped it
SearchOver == pc # "search" \/ facets_queue = <<>>

\* C21: the stack search eventually empties its stack, or stops at the cap,
\* and the function goes on to return; along the way no partial combination
\* has more pairs than there are hyperplane orbits
C21_SearchTerminates ==
    /\ [](pc = "search" => WithinOrbits)
    /\ (pc = "search") ~> SearchOver
    /\ (pc = "search") ~> (pc \in {"done", "panic"})

\* a search that is over after it accepted a combination with a pair of every
\* hyperplane orbit
C21_Witness ==
    /\ pc = "done" /\ facets_queue = <<>>
    /\ rank >= 3 /\ Faceted
    /\ Len(cat.possible_facets) >= 2
    /\ \E i \in 1 .. Len(chosen) : Len(chosen[i]) = Len(cat.possible_facets)

\* faceting_subdim is called with max_per_hyperplane = Some(m), m >= 1
Capped ==
    entry = "faceting_subdim" /\ max_per_hyperplane.some /\ max_per_hyperplane.val >= 1

\* C22: faceting_subdim called with max_per_hyperplane = Some(m), m >= 1,
\* returns at most m facetings, and once the number of accepted facetings
\* reaches m the search loop is left: no further stack entry is popped or
\* classified
C22_CapStops ==
    Capped =>
        /\ Len(output) <= max_per_hyperplane.val
        /\ Len(output) >= max_per_hyperplane.val => pc # "search"
        /\ pc = "done" => Len(ret.facetings) <= max_per_hyperplane.val

\* a capped call at rank 3 that has returned with the cap reached and entries
\* left on the stack
C22_Witness ==
    /\ Capped /\ rank = 3 /\ pc = "done"
    /\ Len(ret.facetings) = max_per_hyperplane.val
    /\ facets_queue # <<>>

\* the list is in ascending (h, f) order with no pair twice
StrictlyAscending(list) == \A k \in 1 .. Len(list) - 1 : LexLt(list[k], list[k + 1])

\* C23: for each ridge orbit g, ones[g] lists, in ascending (h, f) order and
\* each pair at most once, exactly the pairs (h, f) whose total contribution
\* to g when the facet is added to a combination is 1
C23_OnesIndex ==
    Faceted =>
        \A g \in RidgeOrbitIds :
            /\ StrictlyAscending(cat.ones[g + 1])
            /\ SeqToSet(cat.ones[g + 1]) = {pr \in CandidatePairs : Contribution(pr, g) = 1}

\* the elements of a rank of R have pairwise different subelement lists
DistinctSubs(R, r) ==
    \A i, j \in 1 .. Len(At(R, r)) :
        SeqToSet(At(R, r)[i]) = SeqToSet(At(R, r)[j]) => i = j

Sorted == pc = "done" /\ entry = "element_sort_strong"

\* C24: element_sort_strong applied twice gives what it gives applied once,
\* and two rank structures with a single top element that differ only in the
\* order of the elements listed in the ranks it sorts (incidences renumbered,
\* no two of those elements with the same subelement set) are sorted to
\* equal values
C24_CanonicalForm ==
    (Sorted /\ Len(At(self, Len(self) - 1)) = 1
        /\ \A r \in 2 .. Len(self) - 2 : DistinctSubs(self, r))
        => /\ sorted_ranks.twice = sorted_ranks.once
           /\ sorted_ranks.once = sorted_ranks.base

C24_Witness ==
    /\ Sorted /\ Len(self) = 5
    /\ \A r \in 2 .. 3 : DistinctSubs(self, r) /\ At(relisted, r) # At(self, r)
    /\ sorted_ranks.once # relisted
    /\ sorted_ranks.once = sorted_ranks.base

\* the distinct images of the vertex set of hyperplane orbit hp's
\* representative under the rows of the table
HpImages(hp) == {SeqToSet(MapRow(row, At(cat.hyperplane_reps, hp))) : row \in SeqToSet(vertex_map)}

HpOrbits == Range0(Len(cat.hyperplane_reps))

Induced == entry = "stabilizer" /\ pc = "done"

\* the position of vertex v in hp_v
Position(v) == CHOOSE idx \in Range0(Len(hp_v)) : At(hp_v, idx) = v

\* the parent rows that map the set hp_v onto itself, as maps of positions
KeepingRows ==
    {[b \in 1 .. Len(hp_v) |-> Position(At(row, hp_v[b]))] :
        row \in {r \in SeqToSet(vertex_map) :
                    SeqToSet(MapRow(r, hp_v)) = SeqToSet(hp_v)}}

\* C26: for a parent table that is a group, its rows in any order, the
\* induced stabilizer of a hyperplane with sorted vertex list hp_v is, as a
\* set of rows, the set of the maps b -> position in hp_v of row[hp_v[b]] over
\* the parent rows that keep the set hp_v; its rows are permutations of
\* 0 .. |hp_v| - 1 and its first row is the identity
C26_InducedStabilizer ==
    (Induced /\ IsGroupTable)
        => /\ SeqToSet(new_stabilizer) = KeepingRows
           /\ \A a \in 1 .. Len(new_stabilizer) :
                    /\ Len(new_stabilizer[a]) = Len(hp_v)
                    /\ SeqToSet(new_stabilizer[a]) = Range0(Len(hp_v))
           /\ new_stabilizer[1] = Identity(Len(hp_v))

C26_Witness ==
    /\ Induced /\ IsGroupTable
    /\ vertex_map[1] # Identity(config.n)
    /\ MapRow(vertex_map[1], hp_v) # hp_v
    /\ SeqToSet(MapRow(vertex_map[1], hp_v)) = SeqToSet(hp_v)
    /\ hp_v # Identity(Len(hp_v))
    /\ Len(new_stabilizer) > 2
    /\ SeqToSet(new_stabilizer) = KeepingRows

\* C27: whenever label_mixed_compounds returns, filter_mixed_compounds on the
\* same input returns, in increasing order, exactly the indices that are not
\* keys of the map label_mixed_compounds returns
C27_FilterIsComplement ==
    LabelReturned =>
        /\ ~ output_idxs.panic
        /\ output_idxs.out = SetToSortedSeq(ListIds \ DOMAIN mixed_compounds)

C27_Witness ==
    /\ LabelReturned
    /\ \E a \in DOMAIN mixed_compounds : a + 1 < Len(vec) /\ a + 1 \notin DOMAIN mixed_compounds
    /\ Len(output_idxs.out) >= 3
    /\ Len(output_idxs.out) + Cardinality(DOMAIN mixed_compounds) = Len(vec)

\* no combination on the stack, and no accepted one, has more pairs than noble
NobleBound ==
    (entry = "faceting" /\ noble.some) =>
        /\ \A i \in 1 .. Len(facets_queue) : Len(facets_queue[i].facets) <= noble.val
        /\ \A i \in 1 .. Len(chosen) : Len(chosen[i]) <= noble.val

\* C28: in Concrete::faceting with noble = Some(k) no partial combination
\* with more than k chosen pairs is ever pushed on the stack, so every
\* accepted combination has at most k pairs before compound splitting; and
\* with include_compounds = false a valid combination is never extended
C28_NobleCap ==
    /\ [] NobleBound
    /\ [][(entry = "faceting" /\ ~ include_compounds /\ Popping /\ Valid(PoppedMuls) = 0)
            => facets_queue' = Rest]_vars

\* a valid combination of the noble number of pairs is about to be popped,
\* one that has free pairs to be extended by, after another was accepted
C28_Witness ==
    /\ entry = "faceting" /\ noble.some /\ Popping
    /\ Len(Popped.facets) = noble.val
    /\ Valid(PoppedMuls) = 0
    /\ ExtendValid(cat.possible_facets, Popped.facets, Popped.min_hp, PoppedMuls) # <<>>
    /\ chosen # <<>>

FissaryReturned == entry = "mark_fissaries" /\ pc = "done"

\* the faceting uses a facet marked fissary for its hyperplane orbit
UsesFissaryFacet(a) ==
    \E k \in 1 .. Len(At(vec, a)) :
        At(vec, a)[k][2] \in At(all_fissary_facets, At(vec, a)[k][1])

\* C29: the fissary set faceting_subdim returns is empty unless mark_fissary
\* is set and rank > 3; when it is computed it holds no key of the
\* mixed-compound map, and it holds every faceting that is not a compound and
\* uses a facet marked fissary for its hyperplane orbit
C29_FissarySet ==
    FissaryReturned =>
        /\ ~ (mark_fissary /\ rank > 3) => ret.fissary = {}
        /\ ret.fissary \cap DOMAIN ret.compounds = {}
        /\ (mark_fissary /\ rank > 3) =>
                \A a \in ListIds :
                    (a \notin DOMAIN ret.compounds /\ UsesFissaryFacet(a)) => a \in ret.fissary

C29_Witness ==
    /\ FissaryReturned /\ mark_fissary /\ rank > 3
    /\ \E a \in DOMAIN ret.compounds : UsesFissaryFacet(a)
    /\ \E a \in ListIds : UsesFissaryFacet(a) /\ a \in ret.fissary
    /\ \E a \in ListIds : ~ UsesFissaryFacet(a) /\ a \notin ret.fissary /\ a \notin DOMAIN ret.compounds

\* the pairs of a combination lie in pairwise different hyperplane orbits,
\* and those after the first in orbits of a greater index than the first's
OrbitsApart(facets) ==
    /\ \A i, j \in 1 .. Len(facets) : i # j => facets[i][1] # facets[j][1]
    /\ \A k \in 2 .. Len(facets) : facets[k][1] > facets[1][1]

\* C30: in every partial combination on the search stack, and so in every
\* accepted combination before compound splitting, the chosen pairs have
\* pairwise different hyperplane orbit indices, and every pair after the
\* first has a hyperplane orbit index strictly greater than the first pair's
C30_DistinctOrbits ==
    /\ \A i \in 1 .. Len(facets_queue) : OrbitsApart(facets_queue[i].facets)
    /\ \A i \in 1 .. Len(chosen) : OrbitsApart(chosen[i])

\* a combination on the stack whose pairs are not in ascending orbit order,
\* after a combination of two pairs or more was accepted
C30_Witness ==
    /\ \E i \in 1 .. Len(facets_queue) :
            \E k \in 2 .. Len(facets_queue[i].facets) - 1 :
                facets_queue[i].facets[k][1] > facets_queue[i].facets[k + 1][1]
    /\ \E i \in 1 .. Len(chosen) : Len(chosen[i]) >= 2

=============================================================================
